---- MODULE Spec2Model ----
(***************************************************************************)
(* Model of the MySQL Router bootstrap (src/router/src/config_generator.cc) *)
(* as a state machine: the filesystem, the AutoDeleter ledger, the keyring, *)
(* the metadata-server session and the position of the bootstrap run.       *)
(*                                                                          *)
(* Text is represented as sequences of string fragments: a router name is   *)
(* the sequence of its maximal fragments that hold no line terminator, the  *)
(* terminators being fragments of their own; a path is the sequence of its  *)
(* components; a decimal number is the sequence of its digits.  A           *)
(* configuration file is the sequence of its lines, a line is the key       *)
(* followed by the fragments of its value.                                  *)
(***************************************************************************)
EXTENDS Integers, Sequences, FiniteSets, TLC

(***************************************************************************)
(* Bounds of the model                                                      *)
(***************************************************************************)
\* number of bootstrap attempts in one behaviour
MaxRuns == 2

\* number of rows of a topology result set in the discovery specification
MaxRows == 2

(***************************************************************************)
(* Program constants                                                        *)
(***************************************************************************)
kDefaultRWPort == 6446
kDefaultROPort == 6447
kDefaultRWXPort == 64460
kDefaultROXPort == 64470
kRWSocketName == <<"mysql.sock">>
kROSocketName == <<"mysqlro.sock">>
kRWXSocketName == <<"mysqlx.sock">>
kROXSocketName == <<"mysqlxro.sock">>
kSystemRouterName == <<"system">>
kMaxRouterNameLength == 255

(***************************************************************************)
(* Text helpers                                                             *)
(***************************************************************************)
Digits == <<"0", "1", "2", "3", "4", "5", "6", "7", "8", "9">>

IsDigit(c) == \E i \in 1..10 : Digits[i] = c

DigitVal(c) == (CHOOSE i \in 1..10 : Digits[i] = c) - 1

\* std::to_string / operator<< of an unsigned integer
RECURSIVE ToDecimal(_)
ToDecimal(n) ==
  IF n < 10 THEN <<Digits[n + 1]>>
  ELSE ToDecimal(n \div 10) \o <<Digits[(n % 10) + 1]>>

\* number of leading fragments of s, from position i on, that are digits
RECURSIVE DigitRun(_, _)
DigitRun(s, i) ==
  IF i > Len(s) \/ ~IsDigit(s[i]) THEN 0 ELSE 1 + DigitRun(s, i + 1)

\* value of the digits s[i .. i+n-1]
RECURSIVE DigitsValue(_, _, _)
DigitsValue(s, i, n) ==
  IF n = 0 THEN 0
  ELSE DigitsValue(s, i, n - 1) * 10 + DigitVal(s[i + n - 1])

\* std::strtol(tmp, &end, 10): an optional sign, then the longest run of
\* digits; end is the number of fragments consumed (0 when no digit was found)
Strtol(s) ==
  LET neg == Len(s) > 0 /\ s[1] = "-"
      st  == IF neg \/ (Len(s) > 0 /\ s[1] = "+") THEN 2 ELSE 1
      n   == DigitRun(s, st)
      v   == DigitsValue(s, st, n)
  IN [val |-> IF neg THEN 0 - v ELSE v,
      end |-> IF n = 0 THEN 0 ELSE st - 1 + n]

\* length in bytes of a text
RECURSIVE TextLen(_)
TextLen(s) == IF s = <<>> THEN 0 ELSE Len(Head(s)) + TextLen(Tail(s))

(***************************************************************************)
(* Router names                                                             *)
(***************************************************************************)
LongFragment ==
  "xxxxxxxxxxxxxxxxxxxxxxxxxxxxxxxxxxxxxxxxxxxxxxxxxxxxxxxxxxxxxxxx" \o
  "xxxxxxxxxxxxxxxxxxxxxxxxxxxxxxxxxxxxxxxxxxxxxxxxxxxxxxxxxxxxxxxx" \o
  "xxxxxxxxxxxxxxxxxxxxxxxxxxxxxxxxxxxxxxxxxxxxxxxxxxxxxxxxxxxxxxxx" \o
  "xxxxxxxxxxxxxxxxxxxxxxxxxxxxxxxxxxxxxxxxxxxxxxxxxxxxxxxxxxxxxxx"

\* a name check that forgets the carriage return
is_valid_name_lf_only(name) ==
  \A i \in 1..Len(name) : name[i] # "\n"

is_valid_name(name) ==
  \A i \in 1..Len(name) : name[i] # "\n" /\ name[i] # "\r"

(***************************************************************************)
(* User options: a map from option names to texts                           *)
(***************************************************************************)
Has(user_options, key) == key \in DOMAIN user_options

\* TCPAddress(address, 1).is_valid(): the addresses the model offers
ValidAddresses == {<<"0.0.0.0">>, <<"127.0.0.1">>}

is_valid_address(address) == address \in ValidAddresses

(***************************************************************************)
(* ConfigGenerator::Options                                                 *)
(***************************************************************************)
NoEndpoint == [port |-> 0, socket |-> <<>>]

\* Options::Endpoint::operator bool
EndpointPresent(ep) == ep.port > 0 \/ ep.socket # <<>>

DefaultOptions ==
  [multi_master |-> FALSE,
   bind_address |-> <<>>,
   rw_endpoint |-> NoEndpoint,
   ro_endpoint |-> NoEndpoint,
   rw_x_endpoint |-> NoEndpoint,
   ro_x_endpoint |-> NoEndpoint,
   override_logdir |-> <<>>,
   override_rundir |-> <<>>,
   socketsdir |-> <<>>,
   keyring_file_path |-> <<>>,
   keyring_master_key_file_path |-> <<>>]

skip_classic_protocol == FALSE
skip_x_protocol == FALSE

\* the base-port check of fill_options: TRUE when the value is rejected
BasePortInvalid(text) ==
  LET r == Strtol(text)
  IN r.val <= 0 \/ r.val > 65535 \/ r.end # Len(text)

\* the bind-address check of fill_options: TRUE when the value is rejected
BindAddressInvalid(address) == ~is_valid_address(address)

\* fill_options throws std::runtime_error
FillOptionsThrows(user_options) ==
  \/ Has(user_options, "base-port") /\ BasePortInvalid(user_options["base-port"])
  \/ Has(user_options, "bind-address") /\ BindAddressInvalid(user_options["bind-address"])

\* read-only endpoints filled in whatever the topology
FillsReadOnly_always(multi_master) == TRUE

\* the read-only endpoints are filled in only for a single-primary topology
FillsReadOnly(multi_master) == ~multi_master

\* value of `base_port == 0 ? dflt : base_port++`
TakePort(base_port, dflt) == IF base_port = 0 THEN dflt ELSE base_port
\* a base_port that is never incremented
AfterPort_stuck(base_port) == base_port

\* value of base_port after `base_port == 0 ? dflt : base_port++`
AfterPort(base_port) == IF base_port = 0 THEN 0 ELSE base_port + 1

\* ConfigGenerator::fill_options, for user options it does not reject
fill_options(multi_master, user_options) ==
  LET use_sockets == Has(user_options, "use-sockets")
      skip_tcp    == Has(user_options, "skip-tcp")
      ro          == FillsReadOnly(multi_master)
      bp0 == IF Has(user_options, "base-port")
             THEN Strtol(user_options["base-port"]).val ELSE 0
      c_tcp == ~skip_classic_protocol /\ ~skip_tcp
      x_tcp == ~skip_x_protocol /\ ~skip_tcp
      bp1 == IF c_tcp THEN AfterPort(bp0) ELSE bp0
      bp2 == IF c_tcp /\ ro THEN AfterPort(bp1) ELSE bp1
      bp3 == IF x_tcp THEN AfterPort(bp2) ELSE bp2
  IN [DefaultOptions EXCEPT
       !.multi_master = multi_master,
       !.bind_address = IF Has(user_options, "bind-address")
                        THEN user_options["bind-address"] ELSE <<>>,
       !.rw_endpoint =
          [port   |-> IF c_tcp THEN TakePort(bp0, kDefaultRWPort) ELSE 0,
           socket |-> IF ~skip_classic_protocol /\ use_sockets
                      THEN kRWSocketName ELSE <<>>],
       !.ro_endpoint =
          [port   |-> IF c_tcp /\ ro THEN TakePort(bp1, kDefaultROPort) ELSE 0,
           socket |-> IF ~skip_classic_protocol /\ use_sockets /\ ro
                      THEN kROSocketName ELSE <<>>],
       !.rw_x_endpoint =
          [port   |-> IF x_tcp THEN TakePort(bp2, kDefaultRWXPort) ELSE 0,
           socket |-> IF ~skip_x_protocol /\ use_sockets
                      THEN kRWXSocketName ELSE <<>>],
       !.ro_x_endpoint =
          [port   |-> IF x_tcp /\ ro THEN TakePort(bp3, kDefaultROXPort) ELSE 0,
           socket |-> IF ~skip_x_protocol /\ use_sockets /\ ro
                      THEN kROXSocketName ELSE <<>>],
       !.override_logdir = IF Has(user_options, "logdir")
                           THEN user_options["logdir"] ELSE <<>>,
       !.override_rundir = IF Has(user_options, "rundir")
                           THEN user_options["rundir"] ELSE <<>>,
       !.socketsdir = IF Has(user_options, "socketsdir")
                      THEN user_options["socketsdir"] ELSE <<>>]

(***************************************************************************)
(* Rendering of the configuration file                                      *)
(***************************************************************************)
\* ConfigGenerator::endpoint_option: the lines describing one endpoint
endpoint_option(options, ep) ==
  (IF ep.port > 0
   THEN << <<"bind_address=">> \o
             (IF options.bind_address # <<>> THEN options.bind_address
              ELSE <<"0.0.0.0">>),
           <<"bind_port=">> \o ToDecimal(ep.port) >>
   ELSE <<>>)
  \o
  (IF ep.socket # <<>>
   THEN << <<"socket=">> \o options.socketsdir \o <<"/">> \o ep.socket >>
   ELSE <<>>)

\* one [routing:...] section of create_config
RoutingSection(options, ep, key, replicaset, suffix, role, mode, protocol) ==
  IF EndpointPresent(ep)
  THEN << <<"[routing:">> \o key \o <<"_">> \o replicaset \o <<suffix, "]">> >>
       \o endpoint_option(options, ep)
       \o << <<"destinations=", "metadata-cache://">> \o key \o <<"/">>
               \o replicaset \o <<"?role=", role>>,
             <<"mode=", mode>>,
             <<"protocol=", protocol>>,
             <<>> >>
  ELSE <<>>

OptLine(key, value) == IF value # <<>> THEN << <<key>> \o value >> ELSE <<>>

\* ConfigGenerator::create_config: the lines written to the stream
create_config(router_id, router_name, bootstrap_server_addresses, metadata_cluster, metadata_replicaset, username, options) ==
  << <<"# File automatically generated during MySQL Router bootstrap">>,
     <<"[DEFAULT]">> >>
  \o OptLine("name=", router_name)
  \o OptLine("logging_folder=", options.override_logdir)
  \o OptLine("runtime_folder=", options.override_rundir)
  \o OptLine("keyring_path=", options.keyring_file_path)
  \o OptLine("master_key_path=", options.keyring_master_key_file_path)
  \o << <<>>,
        <<"[logger]">>,
        <<"level = INFO">>,
        <<>>,
        <<"[metadata_cache:">> \o metadata_cluster \o <<"]">>,
        <<"router_id=">> \o ToDecimal(router_id),
        <<"bootstrap_server_addresses=">> \o bootstrap_server_addresses,
        <<"user=">> \o username,
        <<"metadata_cluster=">> \o metadata_cluster,
        <<"ttl=300">>,
        <<>> >>
  \o RoutingSection(options, options.rw_endpoint, metadata_cluster,
                    metadata_replicaset, "_rw", "PRIMARY", "read-write", "classic")
  \o RoutingSection(options, options.ro_endpoint, metadata_cluster,
                    metadata_replicaset, "_ro", "SECONDARY", "read-only", "classic")
  \o RoutingSection(options, options.rw_x_endpoint, metadata_cluster,
                    metadata_replicaset, "_x_rw", "PRIMARY", "read-write", "x")
  \o RoutingSection(options, options.ro_x_endpoint, metadata_cluster,
                    metadata_replicaset, "_x_ro", "SECONDARY", "read-only", "x")

\* the account name: "mysql_innodb_cluster_router" + std::to_string(router_id)
\* an account name that leaves the router id out
Username_plain(router_id) == <<"mysql_innodb_cluster_router">>

Username(router_id) == <<"mysql_innodb_cluster_router">> \o ToDecimal(router_id)

(***************************************************************************)
(* Paths and the filesystem                                                 *)
(***************************************************************************)
\* the deployment directory (directory deployment), or the directory that
\* holds the system configuration file (system deployment)
Directory == <<"d">>

\* Path::join
Join(path, name) == path \o <<name>>

\* path + suffix, as in config_file_path + ".tmp"
WithSuffix(path, suffix) == [path EXCEPT ![Len(path)] = @ \o suffix]

ConfigFilePath == Join(Directory, "mysqlrouter.conf")
\* the new configuration written straight to the target path
TmpPath_in_place(config_file_path) == config_file_path

\* the file the new configuration is written to
TmpPath(config_file_path) == WithSuffix(config_file_path, ".tmp")
\* the file the previous configuration is copied to
BakPath(config_file_path) == WithSuffix(config_file_path, ".bak")
LogDir == Join(Directory, "log")
RunDir == Join(Directory, "run")
\* keyring file of a directory deployment: <rundir>/<default_keyring_file_name>
DirKeyringPath == Join(RunDir, "keyring")
\* keyring file handed to a system deployment
SysKeyringPath == Join(Directory, "keyring")
\* the master key file named by --master-key-path
MasterKeyFile == Join(Directory, "mysqlrouter.key")
StartScript == Join(Directory, "start.sh")
StopScript == Join(Directory, "stop.sh")
\* a file of somebody else in the deployment directory
ForeignFile == Join(Directory, "data")

AllPaths ==
  {Directory, ConfigFilePath, TmpPath(ConfigFilePath), BakPath(ConfigFilePath),
   LogDir, RunDir, DirKeyringPath, SysKeyringPath, MasterKeyFile,
   WithSuffix(MasterKeyFile, ".tmp"), StartScript, StopScript, ForeignFile}

\* position of a path component in the byte order of std::string
NameRank(name) ==
  CASE name = "d" -> 0
    [] name = "data" -> 1
    [] name = "keyring" -> 2
    [] name = "log" -> 3
    [] name = "mysqlrouter.conf" -> 4
    [] name = "mysqlrouter.conf.bak" -> 5
    [] name = "mysqlrouter.conf.tmp" -> 6
    [] name = "mysqlrouter.key" -> 7
    [] name = "mysqlrouter.key.tmp" -> 8
    [] name = "run" -> 9
    [] name = "start.sh" -> 10
    [] name = "stop.sh" -> 11

\* std::less<std::string> on two paths
RECURSIVE PathLess(_, _)
PathLess(p, q) ==
  IF p = <<>> THEN q # <<>>
  ELSE IF q = <<>> THEN FALSE
  ELSE IF Head(p) = Head(q) THEN PathLess(Tail(p), Tail(q))
  ELSE NameRank(Head(p)) < NameRank(Head(q))

\* nodes of the filesystem
Absent == [kind |-> "absent"]
DirNode == [kind |-> "dir"]
File(data) == [kind |-> "file", data |-> data]

Exists(fs, path) == fs[path] # Absent
IsFile(fs, path) == fs[path].kind = "file"
IsDir(fs, path) == fs[path].kind = "dir"

\* path lies below dir
Below(dir, path) ==
  Len(path) > Len(dir) /\ SubSeq(path, 1, Len(dir)) = dir

\* is_directory_empty
is_directory_empty(fs, dir) ==
  \A path \in AllPaths : Below(dir, path) => ~Exists(fs, path)

\* delete_file: unlink, an error is returned when there is no such file
delete_file(fs, path) ==
  IF IsFile(fs, path) THEN [fs EXCEPT ![path] = Absent] ELSE fs

\* rmdir: removes an empty directory only
rmdir(fs, path) ==
  IF IsDir(fs, path) /\ is_directory_empty(fs, path)
  THEN [fs EXCEPT ![path] = Absent] ELSE fs

\* delete_recursive: removes the directory and everything below it
delete_recursive(fs, path) ==
  IF IsDir(fs, path)
  THEN [q \in AllPaths |-> IF q = path \/ Below(path, q) THEN Absent ELSE fs[q]]
  ELSE fs

\* rename(2) of a file
RenameFile(fs, from, to) == [fs EXCEPT ![to] = fs[from], ![from] = Absent]

\* copy_file
copy_file(fs, from, to) == [fs EXCEPT ![to] = fs[from]]

(***************************************************************************)
(* AutoDeleter: _files is a std::map from path to type                      *)
(***************************************************************************)
NoFiles == [p \in {} |-> "File"]

\* the order in which the keys of _files were added: operator[] on a key that
\* is already in the map leaves its place alone
Tracked(order, p) ==
  IF \E i \in 1..Len(order) : order[i] = p THEN order ELSE Append(order, p)

add_file(files, f) ==
  [p \in DOMAIN files \cup {f} |-> IF p = f THEN "File" ELSE files[p]]

add_directory(files, d, recursive) ==
  [p \in DOMAIN files \cup {d} |->
     IF p = d THEN (IF recursive THEN "DirectoryRecursive" ELSE "Directory")
     ELSE files[p]]

\* the last key of the map: rbegin()
LastKey(files) ==
  CHOOSE p \in DOMAIN files : \A q \in DOMAIN files : q = p \/ PathLess(q, p)

\* what the destructor does with one entry
DeleteEntry(fs, path, type) ==
  CASE type = "File" -> delete_file(fs, path)
    [] type = "Directory" -> rmdir(fs, path)
    [] type = "DirectoryRecursive" -> delete_recursive(fs, path)

\* the keys in the order the destructor visits them, rbegin() to rend()
RECURSIVE DtorVisits(_)
DtorVisits(files) ==
  IF DOMAIN files = {} THEN <<>>
  ELSE LET p == LastKey(files)
       IN <<p>> \o DtorVisits([q \in DOMAIN files \ {p} |-> files[q]])

\* ~AutoDeleter: walk the map from rbegin() to rend()
RECURSIVE AutoDeleterDtor(_, _)
AutoDeleterDtor(files, fs) ==
  IF DOMAIN files = {} THEN fs
  ELSE LET p == LastKey(files)
       IN AutoDeleterDtor([q \in DOMAIN files \ {p} |-> files[q]],
                          DeleteEntry(fs, p, files[p]))

(***************************************************************************)
(* Reading back an existing configuration file                              *)
(***************************************************************************)
SectionStarts == {"[DEFAULT]", "[logger]", "[metadata_cache:", "[routing:"}

IsSectionHeader(line) == line # <<>> /\ line[1] \in SectionStarts

\* indices of the headers of the sections called name
SectionsOf(cfg, start) ==
  {i \in 1..Len(cfg) : cfg[i] # <<>> /\ cfg[i][1] = start}

\* index of the first section header after line i, Len(cfg) + 1 when none
RECURSIVE SectionEnd(_, _)
SectionEnd(cfg, i) ==
  IF i + 1 > Len(cfg) \/ IsSectionHeader(cfg[i + 1]) THEN i + 1
  ELSE SectionEnd(cfg, i + 1)

\* indices of the option lines of the section whose header is line i
SectionLines(cfg, i) ==
  {j \in (i + 1)..(SectionEnd(cfg, i) - 1) : cfg[j] # <<>>}

SectionHas(cfg, i, key) == \E j \in SectionLines(cfg, i) : cfg[j][1] = key

SectionGet(cfg, i, key) ==
  Tail(cfg[CHOOSE j \in SectionLines(cfg, i) : cfg[j][1] = key])

\* std::strtoul(tmp, &end, 10).  The texts of the model are unsigned and stay
\* below 2^31, so that neither ERANGE nor the truncation to uint32_t occurs.
Strtoul(s) == Strtol(s)

\* a lookup that never recovers the router id of the existing file
get_router_id_from_config_file_none(cfg, cluster_name, forcing_overwrite) ==
  [err |-> <<>>, id |-> 0]

\* ConfigGenerator::get_router_id_from_config_file on the lines of the file;
\* err is the message of the exception thrown, <<>> when none is thrown
get_router_id_from_config_file(cfg, cluster_name, forcing_overwrite) ==
  LET sections == SectionsOf(cfg, "[metadata_cache:")
      i == CHOOSE k \in sections : TRUE
      matches == /\ sections # {}
                 /\ SectionHas(cfg, i, "metadata_cluster=")
                 /\ SectionGet(cfg, i, "metadata_cluster=") = cluster_name
      existing_cluster ==
        IF sections # {} /\ SectionHas(cfg, i, "metadata_cluster=")
        THEN SectionGet(cfg, i, "metadata_cluster=") ELSE <<>>
      tmp == SectionGet(cfg, i, "router_id=")
      r == Strtoul(tmp)
  IN IF Cardinality(sections) > 1
     THEN [err |-> <<"multiple metadata_cache sections not supported">>, id |-> 0]
     ELSE IF matches
     THEN IF SectionHas(cfg, i, "router_id=")
          THEN IF r.end = 0
               THEN [err |-> <<"Invalid router_id">>, id |-> 0]
               ELSE [err |-> <<>>, id |-> r.val]
          ELSE [err |-> <<>>, id |-> 0]
     ELSE IF ~forcing_overwrite
     THEN [err |-> <<"The given Router instance is already configured for a cluster named '">>
                   \o existing_cluster
                   \o <<"'.", "\n", "If you'd like to replace it, please use the --force configuration option.">>,
           id |-> 0]
     ELSE [err |-> <<>>, id |-> 0]

(***************************************************************************)
(* files_equal and backup_config_file_if_different                          *)
(***************************************************************************)
\* size in bytes of a file: every line and its line feed
RECURSIVE FileSize(_)
FileSize(data) ==
  IF data = <<>> THEN 0 ELSE TextLen(Head(data)) + 1 + FileSize(Tail(data))

\* files_equal: the sizes first, then the data
files_equal(fs, f1, f2) ==
  /\ FileSize(fs[f1].data) = FileSize(fs[f2].data)
  /\ fs[f1].data = fs[f2].data

\* a backup taken whenever a configuration file exists
BackupNeeded_always(fs, config_path, new_file_path) == Exists(fs, config_path)

\* the return value of backup_config_file_if_different
BackupNeeded(fs, config_path, new_file_path) ==
  Exists(fs, config_path) /\ ~files_equal(fs, config_path, new_file_path)

\* the filesystem after backup_config_file_if_different
backup_config_file_if_different(fs, config_path, new_file_path) ==
  IF BackupNeeded(fs, config_path, new_file_path)
  THEN copy_file(fs, config_path, BakPath(config_path))
  ELSE fs

(***************************************************************************)
(* fetch_bootstrap_servers: the reduction of the rows of the topology query *)
(***************************************************************************)
\* a column of a row: a C string or a null pointer
Col(text) == [null |-> FALSE, s |-> text]
NullCol == [null |-> TRUE, s |-> <<>>]

\* get_string
get_string(col) == IF col.null THEN <<>> ELSE col.s

\* the variables captured by the row callback, before the first row
FetchStart(multi_master) ==
  [metadata_cluster |-> <<>>, metadata_replicaset |-> <<>>,
   bootstrap_servers |-> <<>>, multi_master |-> multi_master, err |-> <<>>]

\* the row callback
FetchRow(acc, row) ==
  IF acc.metadata_cluster # <<>> /\ acc.metadata_cluster # get_string(row[1])
  THEN [acc EXCEPT !.err = <<"Metadata contains more than one cluster">>]
  ELSE IF acc.metadata_replicaset # <<>> /\ acc.metadata_replicaset # get_string(row[2])
  THEN [acc EXCEPT !.err = <<"Metadata contains more than one replica-set">>]
  ELSE IF ~row[3].null /\ row[3].s # <<"mm">> /\ row[3].s # <<"pm">>
  THEN [acc EXCEPT !.err = <<"Unknown topology type in metadata: ">> \o row[3].s]
  ELSE [acc EXCEPT
         !.metadata_cluster = IF @ = <<>> THEN get_string(row[1]) ELSE @,
         !.metadata_replicaset = IF @ = <<>> THEN get_string(row[2]) ELSE @,
         !.multi_master = IF row[3].null THEN @ ELSE row[3].s = <<"mm">>,
         !.bootstrap_servers =
            (IF @ # <<>> THEN @ \o <<",">> ELSE @)
            \o <<"mysql://">> \o get_string(row[4])]

\* mysql_->query(...) calling the callback for the rows i.. of the result
RECURSIVE FetchRows(_, _, _)
FetchRows(acc, result, i) ==
  IF i > Len(result) \/ acc.err # <<>> THEN acc
  ELSE FetchRows(FetchRow(acc, result[i]), result, i + 1)

\* fetch_bootstrap_servers on a result set that the query returned
fetch_bootstrap_servers(result, multi_master) ==
  LET acc == FetchRows(FetchStart(multi_master), result, 1)
  IN IF acc.err = <<>> /\ acc.metadata_cluster = <<>>
     THEN [acc EXCEPT !.err = <<"No clusters defined in metadata server">>]
     ELSE acc

Row(cluster, replicaset, type, address) ==
  <<Col(cluster), Col(replicaset), Col(type), Col(address)>>

\* the result sets the metadata server returns in the model
ResultSets ==
  { << Row(<<"clusterA">>, <<"default">>, <<"pm">>, <<"h1:3306">>),
       Row(<<"clusterA">>, <<"default">>, <<"pm">>, <<"h2:3306">>) >>,
    << Row(<<"clusterB">>, <<"default">>, <<"mm">>, <<"h3:3306">>) >>,
    << Row(<<"clusterA">>, <<"default">>, <<"pm">>, <<"h1:3306">>),
       Row(<<"clusterB">>, <<"default">>, <<"pm">>, <<"h3:3306">>) >>,
    << >> }

(***************************************************************************)
(* The state of the program and of its environment                          *)
(***************************************************************************)
VARIABLES
  mode,                    \* "system" or "directory": the entry point used
  run,                     \* number of the bootstrap attempt
  pc,                      \* position of the attempt
  exc,                     \* message of the exception in flight or returned
  thrown_at,               \* position at which the exception was thrown
  user_options,            \* argument user_options
  keyring_master_key_file, \* argument keyring_master_key_file, <<>> when empty;
                           \* every attempt on a deployment is given the same
  fs,                      \* the filesystem: path -> node
  autodel,                 \* AutoDeleter::_files
  tracking,                \* the paths in _files, in the order they were added
  created,                 \* directories made by mkdir in this attempt
  keyring_init,            \* the keyring of the process is initialised
  keyring,                 \* entries of the keyring in memory
  master_key,              \* key the keyring was initialised with
  prompted,                \* answers given at the master key prompt
  routers,                 \* router ids in the metadata store (committed)
  nextid,                  \* next router id the metadata store hands out
  txn,                     \* MySQLSession::Transaction: none, open, rolledback, committed
  pending,                 \* router id registered in the open transaction, 0 if none
  dblog,                   \* queries and statements sent in this attempt
  router_name,
  rows,                    \* result set of the topology query
  metadata_cluster,        \* primary_cluster_name
  metadata_replicaset,     \* primary_replicaset_name
  bootstrap_servers,       \* primary_replicaset_servers
  multi_master,
  router_id,
  opts,                    \* Options options of bootstrap_deployment
  stmt,                    \* index of the next statement of create_account
  rendered,                \* lines written by create_config in this attempt
  fs0,                     \* the filesystem when the attempt started
  last,                    \* the latest attempt that succeeded
  replaced,                \* latest configuration replaced by a different one
  used                     \* router ids the attempt has handed out: <<use, id>>

ctlVars == <<run, pc, exc, thrown_at>>
inputVars == <<mode, user_options, keyring_master_key_file>>
fsVars == <<fs, autodel, tracking, created>>
keyVars == <<keyring_init, keyring, master_key, prompted>>
dbVars == <<routers, nextid, txn, pending, dblog>>
fetchVars == <<rows, metadata_cluster, metadata_replicaset, bootstrap_servers, multi_master>>
locVars == <<router_name, router_id, opts, stmt, rendered>>
histVars == <<fs0, last, replaced, used>>

vars == <<ctlVars, inputVars, fsVars, keyVars, dbVars, fetchVars, locVars, histVars>>

(***************************************************************************)
(* Inputs of an attempt                                                     *)
(***************************************************************************)
NoOptions == [k \in {} |-> <<>>]

\* values of the name option that are to be rejected in every deployment
BadNames == {<<"a", "\n", "b">>, <<"r", "\r">>, <<LongFragment \o "x">>}

\* the option maps offered to an attempt: two that are acceptable in every
\* respect, the names to be rejected, the reserved name, and a base-port and
\* a bind-address to be rejected (under the longest name allowed)
UserOptionChoices ==
  { NoOptions,
    ("name" :> <<"r1">>) @@ ("force" :> <<>>)
       @@ ("base-port" :> <<"7", "0", "0", "0">>) }
  \cup {"name" :> x : x \in BadNames \cup {kSystemRouterName}}
  \cup {("name" :> <<LongFragment>>) @@ ("base-port" :> <<"0">>),
        ("force" :> <<>>) @@ ("bind-address" :> <<"bad", ":", ":">>)}

\* the options after the entry point has added its defaults
DeploymentOptions(m, options) ==
  IF m = "directory"
  THEN options
       @@ ("logdir" :> LogDir) @@ ("rundir" :> RunDir) @@ ("socketsdir" :> Directory)
  ELSE options @@ ("socketsdir" :> <<"/tmp">>)

KeyringPath(m) == IF m = "directory" THEN DirKeyringPath ELSE SysKeyringPath

\* tmp_keyring_master_key_file of a directory deployment
TmpMasterKeyFile(master_key_file) ==
  IF master_key_file # <<>> THEN WithSuffix(master_key_file, ".tmp") ELSE <<>>

\* the master key file handed to init_keyring_file and bootstrap_deployment
MasterKeyFileUsed(m, master_key_file) ==
  IF m = "directory" THEN TmpMasterKeyFile(master_key_file) ELSE master_key_file

(***************************************************************************)
(* Initial states: what an earlier bootstrap, or nobody, left behind        *)
(***************************************************************************)
\* the configuration an earlier bootstrap of router 1 against clusterA wrote
OldConfig(m) ==
  LET o == DeploymentOptions(m, "use-sockets" :> <<>>)
  IN create_config(1, IF m = "directory" THEN <<>> ELSE kSystemRouterName,
                   <<"mysql://", "h1:3306">>, <<"clusterA">>, <<"default">>,
                   Username(1),
                   [fill_options(FALSE, o) EXCEPT
                      !.keyring_file_path = KeyringPath(m)])

\* entries of a keyring: pairs of account name and secret; the secret is the
\* number of the attempt that generated it, 0 for an earlier one
OldKeyring == {<<Username(1), 0>>}

EmptyFS == [p \in AllPaths |-> Absent]

Deployed(m) ==
  [p \in AllPaths |->
     IF p = Directory THEN DirNode
     ELSE IF p = ConfigFilePath THEN File(OldConfig(m))
     ELSE IF p = KeyringPath(m) THEN File(OldKeyring)
     ELSE IF m = "directory" /\ p \in {LogDir, RunDir} THEN DirNode
     ELSE IF m = "directory" /\ p \in {StartScript, StopScript}
          THEN File(<< <<"script">> >>)
     ELSE Absent]

\* a directory that exists, with or without log and run directories, or with
\* a file of somebody else
Undeployed(l, r, f) ==
  [p \in AllPaths |->
     IF p = Directory THEN DirNode
     ELSE IF p = LogDir /\ l THEN DirNode
     ELSE IF p = RunDir /\ r THEN DirNode
     ELSE IF p = ForeignFile /\ f THEN File(<< <<"x">> >>)
     ELSE Absent]

InitialFS(m) ==
  IF m = "system"
  THEN {Undeployed(FALSE, FALSE, FALSE), Deployed(m)}
  ELSE {EmptyFS, Deployed(m), Undeployed(FALSE, FALSE, TRUE)}
       \cup {Undeployed(l, r, FALSE) : l \in BOOLEAN, r \in BOOLEAN}

NoRun == [valid |-> FALSE]

Init ==
  /\ mode \in {"system", "directory"}
  /\ run = 0
  /\ pc = "init"
  /\ exc = <<>>
  /\ thrown_at = "none"
  /\ user_options = NoOptions
  /\ keyring_master_key_file \in {<<>>, MasterKeyFile}
  /\ fs \in InitialFS(mode)
  /\ autodel = NoFiles
  /\ tracking = <<>>
  /\ created = {}
  /\ keyring_init = FALSE
  /\ keyring = {}
  /\ master_key = <<>>
  /\ prompted = <<>>
  /\ routers = IF Exists(fs, ConfigFilePath) THEN {1} ELSE {}
  /\ nextid = 2
  /\ txn = "none"
  /\ pending = 0
  /\ dblog = <<>>
  /\ router_name = <<>>
  /\ rows = <<>>
  /\ metadata_cluster = <<>>
  /\ metadata_replicaset = <<>>
  /\ bootstrap_servers = <<>>
  /\ multi_master = FALSE
  /\ router_id = 0
  /\ opts = DefaultOptions
  /\ stmt = 1
  /\ rendered = <<>>
  /\ fs0 = fs
  /\ last = NoRun
  /\ replaced = <<>>
  /\ used = {}

(***************************************************************************)
(* Control                                                                  *)
(***************************************************************************)
\* no attempt is under way
Idle == pc \in {"init", "done", "failed", "crashed"}

\* the states the model starts an attempt from: an initial state and the
\* states successful attempts have led to
Startable == pc \in {"init", "done"}

Goto(next) == pc' = next /\ UNCHANGED <<run, exc, thrown_at>>

\* throw std::runtime_error(msg) (or silent_exception)
Throw(msg) ==
  /\ pc' = "throw"
  /\ exc' = msg
  /\ thrown_at' = pc
  /\ run' = run

\* a new process calls one of the two entry points
StartRun ==
  /\ Startable
  /\ run < MaxRuns
  /\ run' = run + 1
  /\ pc' = "check_name"
  /\ exc' = <<>>
  /\ thrown_at' = "none"
  /\ user_options' \in UserOptionChoices
  /\ autodel' = NoFiles
  /\ tracking' = <<>>
  /\ created' = {}
  /\ keyring_init' = FALSE
  /\ keyring' = {}
  /\ master_key' = <<>>
  /\ prompted' = <<>>
  /\ txn' = "none"
  /\ pending' = 0
  /\ dblog' = <<>>
  /\ router_name' = <<>>
  /\ rows' = <<>>
  /\ metadata_cluster' = <<>>
  /\ metadata_replicaset' = <<>>
  /\ bootstrap_servers' = <<>>
  /\ multi_master' = FALSE
  /\ router_id' = 0
  /\ opts' = DefaultOptions
  /\ stmt' = 1
  /\ rendered' = <<>>
  /\ fs0' = fs
  /\ used' = {}
  /\ UNCHANGED <<mode, keyring_master_key_file, fs, routers, nextid, last,
                 replaced>>

(***************************************************************************)
(* The entry points, up to the call of bootstrap_deployment                 *)
(***************************************************************************)
\* the length check on the router name: TRUE when the name is too long
NameTooLong(name) == TextLen(name) > kMaxRouterNameLength

\* message of the exception the name checks throw, <<>> when they pass
NameError(m, options) ==
  IF ~Has(options, "name") THEN <<>>
  ELSE IF m = "directory" /\ options["name"] = kSystemRouterName
  THEN <<"Router name 'system' is reserved">>
  ELSE IF ~is_valid_name(options["name"])
  THEN <<"Router name contains invalid characters.">>
  ELSE IF NameTooLong(options["name"])
  THEN <<"Router name too long (max 255).">>
  ELSE <<>>

\* router_name after the name checks
RouterName(m, options) ==
  LET n == IF Has(options, "name") THEN options["name"] ELSE <<>>
  IN IF m = "system" /\ n = <<>> THEN kSystemRouterName ELSE n

\* lines 204-213 and 269-276
CheckName ==
  /\ pc = "check_name"
  /\ \/ /\ NameError(mode, user_options) # <<>>
        /\ Throw(NameError(mode, user_options))
        /\ UNCHANGED router_name
     \/ /\ NameError(mode, user_options) = <<>>
        /\ router_name' = RouterName(mode, user_options)
        /\ Goto(IF mode = "directory" THEN "mkdir_dir" ELSE "open_tmp")
  /\ UNCHANGED <<inputVars, fsVars, keyVars, dbVars, fetchVars, router_id,
                 opts, stmt, rendered, histVars>>

\* lines 278-284: the deployment directory
MkdirDirectory ==
  /\ pc = "mkdir_dir"
  /\ \/ /\ Exists(fs, Directory)
        /\ Goto("check_empty")
        /\ UNCHANGED fsVars
     \/ /\ ~Exists(fs, Directory)
        /\ fs' = [fs EXCEPT ![Directory] = DirNode]
        /\ autodel' = add_directory(autodel, Directory, TRUE)
        /\ tracking' = Tracked(tracking, Directory)
        /\ created' = created \cup {Directory}
        /\ Goto("check_empty")
     \/ /\ ~Exists(fs, Directory)
        /\ Throw(<<"Could not create deployment directory">>)
        /\ UNCHANGED fsVars
  /\ UNCHANGED <<inputVars, keyVars, dbVars, fetchVars, locVars, histVars>>

\* a check that does not look at the force option
DirectoryRefused_despite_force(f, config_file_path, force) ==
  ~Exists(f, config_file_path) /\ ~is_directory_empty(f, Directory)

\* the condition of line 287
DirectoryRefused(f, config_file_path, force) ==
  ~Exists(f, config_file_path) /\ ~force /\ ~is_directory_empty(f, Directory)

\* lines 285-290
CheckDirectory ==
  /\ pc = "check_empty"
  /\ \/ /\ DirectoryRefused(fs, ConfigFilePath, Has(user_options, "force"))
        /\ Throw(<<"Directory already exits">>)
     \/ /\ ~DirectoryRefused(fs, ConfigFilePath, Has(user_options, "force"))
        /\ Goto("mkdir_log")
  /\ UNCHANGED <<inputVars, fsVars, keyVars, dbVars, fetchVars, locVars, histVars>>

\* a mkdir step that tracks the directory also when it was there already
MkdirSub_tracks_existing(at, dir, next) ==
  /\ pc = at
  /\ \/ /\ fs' = [fs EXCEPT ![dir] = DirNode]
        /\ autodel' = add_directory(autodel, dir, FALSE)
        /\ tracking' = Tracked(tracking, dir)
        /\ created' = created \cup {dir}
        /\ Goto(next)
     \/ /\ ~Exists(fs, dir)
        /\ Throw(<<"Could not create deployment directory">>)
        /\ UNCHANGED fsVars
  /\ UNCHANGED <<inputVars, keyVars, dbVars, fetchVars, locVars, histVars>>

\* mkdir of the log or run directory, lines 300-315
MkdirSub(at, dir, next) ==
  /\ pc = at
  /\ \/ /\ Exists(fs, dir)          \* EEXIST
        /\ Goto(next)
        /\ UNCHANGED fsVars
     \/ /\ ~Exists(fs, dir)
        /\ fs' = [fs EXCEPT ![dir] = DirNode]
        /\ autodel' = add_directory(autodel, dir, FALSE)
        /\ tracking' = Tracked(tracking, dir)
        /\ created' = created \cup {dir}
        /\ Goto(next)
     \/ /\ ~Exists(fs, dir)         \* any other errno
        /\ Throw(<<"Could not create deployment directory">>)
        /\ UNCHANGED fsVars
  /\ UNCHANGED <<inputVars, keyVars, dbVars, fetchVars, locVars, histVars>>

MkdirLog == MkdirSub("mkdir_log", DeploymentOptions(mode, user_options)["logdir"], "mkdir_run")

MkdirRun == MkdirSub("mkdir_run", DeploymentOptions(mode, user_options)["rundir"], "open_tmp")

\* lines 219-223 and 318-323: config_file.open(config_file_path + ".tmp")
OpenTmp ==
  /\ pc = "open_tmp"
  /\ \/ /\ fs' = [fs EXCEPT ![TmpPath(ConfigFilePath)] = File(<<>>)]
        /\ autodel' = IF mode = "directory"
                      THEN add_file(autodel, TmpPath(ConfigFilePath))
                      ELSE autodel
        /\ tracking' = IF mode = "directory"
                       THEN Tracked(tracking, TmpPath(ConfigFilePath))
                       ELSE tracking
        /\ Goto(IF mode = "directory" THEN "copy_key" ELSE "init_keyring")
     \/ /\ Throw(<<"Could not open .tmp for writing">>)
        /\ UNCHANGED <<fs, autodel, tracking>>
  /\ UNCHANGED <<inputVars, created, keyVars, dbVars, fetchVars, locVars, histVars>>

\* lines 325-336: the temporary master key file of a directory deployment
CopyMasterKey ==
  /\ pc = "copy_key"
  /\ LET tmp == TmpMasterKeyFile(keyring_master_key_file)
     IN IF keyring_master_key_file # <<>>
        THEN /\ autodel' = add_file(autodel, tmp)
             /\ tracking' = Tracked(tracking, tmp)
             /\ fs' = IF Exists(fs, keyring_master_key_file)
                      THEN copy_file(fs, keyring_master_key_file, tmp)
                      ELSE fs
        ELSE UNCHANGED <<fs, autodel, tracking>>
  /\ Goto("init_keyring")
  /\ UNCHANGED <<inputVars, created, keyVars, dbVars, fetchVars, locVars, histVars>>

\* answers of the user at the master key prompt
PromptAnswers == {<<>>, <<"secret">>}

\* the keyring in memory after init_keyring / init_keyring_with_key
LoadKeyring(f, keyring_file) ==
  IF Exists(f, keyring_file) THEN f[keyring_file].data ELSE {}

\* init_keyring_file, lines 539-569
InitKeyringFile ==
  /\ pc = "init_keyring"
  /\ LET keyring_file == KeyringPath(mode)
         key_file == MasterKeyFileUsed(mode, keyring_master_key_file)
     IN \/ /\ key_file = <<>>           \* the key is asked for
           /\ \E answer \in PromptAnswers :
                /\ prompted' = Append(prompted, answer)
                /\ \/ /\ ~Exists(fs, keyring_file)
                      /\ answer = <<>>
                      /\ Throw(<<"silent_exception">>)
                      /\ UNCHANGED <<fs, keyring_init, keyring, master_key>>
                   \* a confirmation that differs leads back to the prompt
                   \/ /\ Exists(fs, keyring_file) \/ answer # <<>>
                      /\ keyring_init' = TRUE
                      /\ keyring' = LoadKeyring(fs, keyring_file)
                      /\ master_key' = answer
                      /\ Goto("fetch")
                      /\ UNCHANGED fs
                   \* init_keyring_with_key throws
                   \/ /\ Exists(fs, keyring_file) \/ answer # <<>>
                      /\ Throw(<<"keyring could not be initialised">>)
                      /\ UNCHANGED <<fs, keyring_init, keyring, master_key>>
        \/ /\ key_file # <<>>           \* the key is read from, or put into, the file
           /\ keyring_init' = TRUE
           /\ keyring' = LoadKeyring(fs, keyring_file)
           /\ master_key' = <<"key of ">> \o key_file
           /\ fs' = IF Exists(fs, key_file) THEN fs
                    ELSE [fs EXCEPT ![key_file] = File(<< <<"master key">> >>)]
           /\ UNCHANGED prompted
           /\ Goto("fetch")
        \/ /\ key_file # <<>>           \* init_keyring throws
           /\ Throw(<<"keyring could not be initialised">>)
           /\ UNCHANGED <<fs, keyVars>>
  /\ UNCHANGED <<inputVars, autodel, tracking, created, dbVars, fetchVars, locVars, histVars>>

(***************************************************************************)
(* bootstrap_deployment                                                     *)
(***************************************************************************)
Log(entry) == dblog' = Append(dblog, entry)

\* lines 452-455: fetch_bootstrap_servers
FetchBootstrapServers ==
  /\ pc = "fetch"
  /\ Log("SELECT topology")
  /\ \/ \E result \in ResultSets :
          LET r == fetch_bootstrap_servers(result, multi_master)
          IN /\ rows' = result
             /\ IF r.err # <<>>
                THEN /\ Throw(r.err)
                     /\ UNCHANGED <<metadata_cluster, metadata_replicaset,
                                    bootstrap_servers, multi_master>>
                ELSE /\ metadata_cluster' = r.metadata_cluster
                     /\ metadata_replicaset' = r.metadata_replicaset
                     /\ bootstrap_servers' = r.bootstrap_servers
                     /\ multi_master' = r.multi_master
                     /\ Goto("get_id")
     \/ /\ Throw(<<"Error querying metadata">>)     \* MySQLSession::Error
        /\ UNCHANGED fetchVars
  /\ UNCHANGED <<inputVars, fsVars, keyVars, routers, nextid, txn, pending,
                 locVars, histVars>>

\* a lookup that is always told to overwrite
GetRouterId_forced ==
  /\ pc = "get_id"
  /\ IF Exists(fs, ConfigFilePath)
     THEN LET r == get_router_id_from_config_file(fs[ConfigFilePath].data,
                     metadata_cluster, TRUE)
          IN IF r.err # <<>>
             THEN Throw(r.err) /\ UNCHANGED router_id
             ELSE router_id' = r.id /\ Goto("begin")
     ELSE UNCHANGED router_id /\ Goto("begin")
  /\ UNCHANGED <<inputVars, fsVars, keyVars, dbVars, fetchVars, router_name,
                 opts, stmt, rendered, histVars>>

\* lines 457-460: the router id of the existing configuration file
GetRouterId ==
  /\ pc = "get_id"
  /\ IF Exists(fs, ConfigFilePath)
     THEN LET r == get_router_id_from_config_file(fs[ConfigFilePath].data,
                     metadata_cluster, Has(user_options, "force"))
          IN IF r.err # <<>>
             THEN Throw(r.err) /\ UNCHANGED router_id
             ELSE router_id' = r.id /\ Goto("begin")
     ELSE UNCHANGED router_id /\ Goto("begin")
  /\ UNCHANGED <<inputVars, fsVars, keyVars, dbVars, fetchVars, router_name,
                 opts, stmt, rendered, histVars>>

\* line 474: MySQLSession::Transaction transaction(mysql_)
BeginTransaction ==
  /\ pc = "begin"
  /\ Log("START TRANSACTION")
  /\ \/ /\ txn' = "open"
        /\ Goto(IF router_id > 0 THEN "check_id" ELSE "register")
     \/ /\ Throw(<<"START TRANSACTION failed">>)
        /\ UNCHANGED txn
  /\ UNCHANGED <<inputVars, fsVars, keyVars, routers, nextid, pending,
                 fetchVars, locVars, histVars>>

\* metadata.check_router_id: the id is known to the metadata store
RouterKnown(ids, id) == id \in ids

\* a check whose failure is ignored: the recovered id is kept
CheckRouterId_keeps ==
  /\ pc = "check_id"
  /\ Log("check_router_id")
  /\ UNCHANGED router_id
  /\ used' = used \cup {<<IF RouterKnown(routers, router_id)
                           THEN "check passed" ELSE "check failed", router_id>>}
  /\ Goto("fill_options")
  /\ UNCHANGED <<inputVars, fsVars, keyVars, routers, nextid, txn, pending,
                 fetchVars, router_name, opts, stmt, rendered, fs0, last,
                 replaced>>

\* lines 478-488
CheckRouterId ==
  /\ pc = "check_id"
  /\ Log("check_router_id")
  /\ IF RouterKnown(routers, router_id)
     THEN /\ UNCHANGED router_id
          /\ used' = used \cup {<<"check passed", router_id>>}
          /\ Goto("fill_options")
     ELSE /\ router_id' = 0                        \* the warning
          /\ used' = used \cup {<<"check failed", router_id>>}
          /\ Goto("register")
  /\ UNCHANGED <<inputVars, fsVars, keyVars, routers, nextid, txn, pending,
                 fetchVars, router_name, opts, stmt, rendered, fs0, last,
                 replaced>>

\* codes of the MySQLSession::Error that register_router may throw
RegisterErrorCodes == {1062, 1045}

\* the reply of the metadata server that carries an error code
ErrorEntry(code) == IF code = 1062 THEN "ERROR 1062" ELSE "ERROR 1045"

\* an error that is reported the same way whatever its code
RegisterError_generic(code, name) ==
  <<"While registering router instance in metadata server: ">>

\* lines 493-502: the message of the exception thrown for an error code
RegisterError(code, name) ==
  IF code = 1062
  THEN <<"It appears that a router instance named '">> \o name
       \o <<"' has been previously configured in this host. If that instance no longer exists, use the --force option to overwrite it.">>
  ELSE <<"While registering router instance in metadata server: ">>

\* lines 490-503
RegisterRouter ==
  /\ pc = "register"
  /\ \/ /\ Log("register_router")
        /\ router_id' = nextid
        /\ pending' = nextid
        /\ nextid' = nextid + 1
        /\ Goto("fill_options")
     \/ \E code \in RegisterErrorCodes :
          /\ dblog' = dblog \o <<"register_router", ErrorEntry(code)>>
          /\ Throw(RegisterError(code, router_name))
          /\ UNCHANGED <<router_id, pending, nextid>>
  /\ UNCHANGED <<inputVars, fsVars, keyVars, routers, txn, fetchVars,
                 router_name, opts, stmt, rendered, histVars>>

\* lines 505-507
FillOptions ==
  /\ pc = "fill_options"
  /\ LET o == DeploymentOptions(mode, user_options)
     IN IF FillOptionsThrows(o)
        THEN Throw(<<"Invalid base-port or bind-address value">>) /\ UNCHANGED opts
        ELSE /\ opts' = [fill_options(multi_master, o) EXCEPT
                           !.keyring_file_path = KeyringPath(mode),
                           !.keyring_master_key_file_path =
                              MasterKeyFileUsed(mode, keyring_master_key_file)]
             /\ Goto("store")
  /\ UNCHANGED <<inputVars, fsVars, keyVars, dbVars, fetchVars, router_name,
                 router_id, stmt, rendered, histVars>>

\* Keyring::store
StoreEntry(entries, account, secret) ==
  {e \in entries : e[1] # account} \cup {<<account, secret>>}

\* generate_password: the secret of attempt n
generate_password(n) == n

\* a flush that writes nothing
FlushKeyring_skipped(f, keyring_file, entries) == f

\* the keyring file after flush_keyring
FlushKeyring(f, keyring_file, entries) == [f EXCEPT ![keyring_file] = File(entries)]

\* lines 511-521
StorePassword ==
  /\ pc = "store"
  /\ keyring' = StoreEntry(keyring, Username(router_id), generate_password(run))
  /\ \/ /\ fs' = FlushKeyring(fs, KeyringPath(mode), keyring')
        /\ Goto("account")
     \/ /\ Throw(<<"Error storing encrypted password to disk">>)
        /\ UNCHANGED fs
  /\ UNCHANGED <<inputVars, autodel, tracking, created, keyring_init, master_key, prompted, dbVars,
                 fetchVars, locVars>>
  /\ used' = used \cup {<<"username", router_id>>}
  /\ UNCHANGED <<fs0, last, replaced>>

\* the statements with the two GRANTs ahead of CREATE USER
AccountStatements_grants_first ==
  <<"DROP USER IF EXISTS",
    "GRANT SELECT ON mysql_innodb_cluster_metadata.*",
    "GRANT SELECT ON performance_schema.replication_group_members",
    "CREATE USER">>

\* the queries of create_account, lines 874-879
AccountStatements ==
  <<"DROP USER IF EXISTS", "CREATE USER",
    "GRANT SELECT ON mysql_innodb_cluster_metadata.*",
    "GRANT SELECT ON performance_schema.replication_group_members">>

\* create_account, lines 874-893: one statement of the loop
CreateAccount ==
  /\ pc = "account"
  /\ \/ /\ Log(AccountStatements[stmt])
        /\ stmt' = stmt + 1
        /\ Goto(IF stmt = Len(AccountStatements) THEN "update_info" ELSE "account")
        /\ UNCHANGED <<txn, pending>>
     \/ /\ dblog' = dblog \o <<AccountStatements[stmt], "ROLLBACK">>
        /\ \/ txn' = "rolledback" /\ pending' = 0
           \/ UNCHANGED <<txn, pending>>      \* the ROLLBACK fails as well
        /\ Throw(<<"Error creating MySQL account for router">>)
        /\ UNCHANGED stmt
  /\ UNCHANGED <<inputVars, fsVars, keyVars, routers, nextid, fetchVars,
                 router_name, router_id, opts, rendered>>
  /\ used' = used \cup {<<"account", router_id>>}
  /\ UNCHANGED <<fs0, last, replaced>>

\* line 525: metadata.update_router_info
UpdateRouterInfo ==
  /\ pc = "update_info"
  /\ Log("update_router_info")
  /\ \/ Goto("create_config")
     \/ Throw(<<"update_router_info failed">>)
  /\ UNCHANGED <<inputVars, fsVars, keyVars, routers, nextid, txn, pending,
                 fetchVars, locVars>>
  /\ used' = used \cup {<<"update_router_info", router_id>>}
  /\ UNCHANGED <<fs0, last, replaced>>

\* lines 528-534: create_config writes to the stream opened on the .tmp file
CreateConfig ==
  /\ pc = "create_config"
  /\ rendered' = create_config(router_id, router_name, bootstrap_servers,
                               metadata_cluster, metadata_replicaset,
                               Username(router_id), opts)
  /\ fs' = [fs EXCEPT ![TmpPath(ConfigFilePath)] = File(rendered')]
  /\ Goto("commit")
  /\ UNCHANGED <<inputVars, autodel, tracking, created, keyVars, dbVars, fetchVars,
                 router_name, router_id, opts, stmt>>
  /\ used' = used \cup {<<"config", router_id>>}
  /\ UNCHANGED <<fs0, last, replaced>>

\* line 536: transaction.commit()
CommitTransaction ==
  /\ pc = "commit"
  /\ Log("COMMIT")
  /\ \/ /\ txn' = "committed"
        /\ routers' = IF pending # 0 THEN routers \cup {pending} ELSE routers
        /\ pending' = 0
        /\ Goto("backup")
     \/ /\ Throw(<<"COMMIT failed">>)
        /\ UNCHANGED <<txn, routers, pending>>
  /\ UNCHANGED <<inputVars, fsVars, keyVars, nextid, fetchVars, locVars, histVars>>

(***************************************************************************)
(* The entry points, after bootstrap_deployment has returned                *)
(***************************************************************************)
\* lines 229-234 and 342-347: close the stream, back up the old file
BackupConfig ==
  /\ pc = "backup"
  /\ \/ /\ fs' = backup_config_file_if_different(fs, ConfigFilePath,
                                                 TmpPath(ConfigFilePath))
        /\ Goto("rename_conf")
     \/ /\ BackupNeeded(fs, ConfigFilePath, TmpPath(ConfigFilePath))
        /\ Throw(<<"could not copy the configuration file">>)
        /\ UNCHANGED fs
  /\ UNCHANGED <<inputVars, autodel, tracking, created, keyVars, dbVars, fetchVars,
                 locVars, histVars>>

\* the filesystem after the new configuration was moved into place
InstallConfig(f, config_file_path) ==
  RenameFile(f, TmpPath(config_file_path), config_file_path)

\* lines 236-241 and 349-355: rename the .tmp file to the final file
RenameConfig ==
  /\ pc = "rename_conf"
  /\ \/ /\ fs' = InstallConfig(fs, ConfigFilePath)
        /\ replaced' =
             IF Exists(fs, ConfigFilePath)
                /\ fs[ConfigFilePath] # fs[TmpPath(ConfigFilePath)]
             THEN fs[ConfigFilePath].data ELSE replaced
        /\ Goto(IF mode = "directory" THEN "rename_key" ELSE "private")
     \/ /\ Throw(IF mode = "directory"
                 THEN <<"Could not move configuration file to final location">>
                 ELSE <<"Could not save configuration file to final location">>)
        /\ UNCHANGED <<fs, replaced>>
  /\ UNCHANGED <<inputVars, autodel, tracking, created, keyVars, dbVars, fetchVars,
                 locVars, fs0, last, used>>

\* lines 357-364: rename the temporary master key file
RenameMasterKey ==
  /\ pc = "rename_key"
  /\ LET tmp == TmpMasterKeyFile(keyring_master_key_file)
     IN \/ /\ tmp = <<>>
           /\ Goto("private")
           /\ UNCHANGED fs
        \/ /\ tmp # <<>>
           /\ Exists(fs, tmp)
           /\ fs' = RenameFile(fs, tmp, keyring_master_key_file)
           /\ Goto("private")
        \/ /\ tmp # <<>>
           /\ Throw(<<"Could not move keyring file to its final location">>)
           /\ UNCHANGED fs
  /\ UNCHANGED <<inputVars, autodel, tracking, created, keyVars, dbVars, fetchVars,
                 locVars, histVars>>

\* what is remembered of an attempt that succeeded
ThisRun ==
  [valid |-> TRUE, user_options |-> user_options,
   keyring_master_key_file |-> keyring_master_key_file, rows |-> rows,
   router_id |-> router_id, rendered |-> rendered]

\* the entry point returns normally
Return == pc' = "done" /\ last' = ThisRun /\ UNCHANGED <<run, exc, thrown_at>>

\* lines 242 and 365: make_file_private(config_file_path)
MakeFilePrivate ==
  /\ pc = "private"
  /\ \/ /\ mode = "system"
        /\ Return
     \/ /\ mode = "directory"
        /\ Goto("scripts")
        /\ UNCHANGED last
     \/ /\ Throw(<<"Could not set permissions for file">>)
        /\ UNCHANGED last
  /\ UNCHANGED <<inputVars, fsVars, keyVars, dbVars, fetchVars, locVars, fs0,
                 replaced, used>>

ScriptFile == File(<< <<"script">> >>)

\* lines 366-369: create_start_scripts, then autodel.clear()
CreateStartScripts ==
  /\ pc = "scripts"
  /\ \/ /\ fs' = [fs EXCEPT ![StartScript] = ScriptFile, ![StopScript] = ScriptFile]
        /\ autodel' = NoFiles
        /\ tracking' = <<>>
        /\ Return
     \/ /\ Throw(<<"Could not open start.sh for writing">>)
        /\ UNCHANGED <<fs, autodel, tracking, last>>
     \/ /\ fs' = [fs EXCEPT ![StartScript] = ScriptFile]
        /\ Throw(<<"Could not open stop.sh for writing">>)
        /\ UNCHANGED <<autodel, tracking, last>>
  /\ UNCHANGED <<inputVars, created, keyVars, dbVars, fetchVars, locVars, fs0,
                 replaced, used>>

(***************************************************************************)
(* Leaving the entry point with an exception, and dying                     *)
(***************************************************************************)
\* an entry point without AutoDeleter
UnwindFiles_kept(m, files, f) == f

\* the filesystem after the destructors of the entry point have run
UnwindFiles(m, files, f) ==
  IF m = "directory" THEN AutoDeleterDtor(files, f) ELSE f

\* stack unwinding: ~Transaction (rolls back unless committed), then, in a
\* directory deployment, ~AutoDeleter
Unwind ==
  /\ pc = "throw"
  /\ IF txn \in {"open", "rolledback"}
     THEN /\ Log("ROLLBACK (~Transaction)")
          /\ txn' = "rolledback"
          /\ pending' = 0
     ELSE UNCHANGED <<dblog, txn, pending>>
  /\ fs' = UnwindFiles(mode, autodel, fs)
  /\ autodel' = NoFiles
  /\ tracking' = <<>>
  /\ pc' = "failed"
  /\ UNCHANGED <<run, exc, thrown_at, inputVars, created, keyVars,
                 routers, nextid, fetchVars, locVars, histVars>>

\* the process is killed: no destructor runs, its memory is gone and the
\* server drops the session with its open transaction
Crash ==
  /\ ~Idle
  /\ pc' = "crashed"
  /\ exc' = <<>>
  /\ thrown_at' = "none"
  /\ autodel' = NoFiles
  /\ tracking' = <<>>
  /\ keyring_init' = FALSE
  /\ keyring' = {}
  /\ master_key' = <<>>
  /\ prompted' = <<>>
  /\ txn' = "none"
  /\ pending' = 0
  /\ dblog' = <<>>
  /\ router_name' = <<>>
  /\ rows' = <<>>
  /\ metadata_cluster' = <<>>
  /\ metadata_replicaset' = <<>>
  /\ bootstrap_servers' = <<>>
  /\ multi_master' = FALSE
  /\ router_id' = 0
  /\ opts' = DefaultOptions
  /\ stmt' = 1
  /\ UNCHANGED <<run, inputVars, fs, created, routers, nextid, rendered, histVars>>

\* between two attempts somebody removes the router of this deployment from
\* the metadata store
RouterDeleted ==
  /\ Startable
  /\ run < MaxRuns
  /\ LET id == IF last.valid THEN last.router_id ELSE 1
     IN id \in routers /\ routers' = routers \ {id}
  /\ UNCHANGED <<ctlVars, inputVars, fsVars, keyVars, nextid, txn, pending,
                 dblog, fetchVars, locVars, histVars>>

Next ==
  \/ StartRun
  \/ CheckName
  \/ MkdirDirectory
  \/ CheckDirectory
  \/ MkdirLog
  \/ MkdirRun
  \/ OpenTmp
  \/ CopyMasterKey
  \/ InitKeyringFile
  \/ FetchBootstrapServers
  \/ GetRouterId
  \/ BeginTransaction
  \/ CheckRouterId
  \/ RegisterRouter
  \/ FillOptions
  \/ StorePassword
  \/ CreateAccount
  \/ UpdateRouterInfo
  \/ CreateConfig
  \/ CommitTransaction
  \/ BackupConfig
  \/ RenameConfig
  \/ RenameMasterKey
  \/ MakeFilePrivate
  \/ CreateStartScripts
  \/ Unwind
  \/ Crash
  \/ RouterDeleted

Spec == Init /\ [][Next]_vars

TypeOK ==
  /\ pc \in {"init", "done", "failed", "crashed", "throw", "check_name",
             "mkdir_dir", "check_empty", "mkdir_log", "mkdir_run", "open_tmp",
             "copy_key", "init_keyring", "fetch", "get_id", "begin", "check_id",
             "register", "fill_options", "store", "account", "update_info",
             "create_config", "commit", "backup", "rename_conf", "rename_key",
             "private", "scripts", "options_input", "options_rejected",
             "options_resolved", "options_rendered",
             "fetch_input", "fetch_done", "fetch_failed",
             "recover_input", "recover_done", "recover_failed"}
  /\ run \in 0..MaxRuns
  /\ stmt \in 1..(Len(AccountStatements) + 1)
  /\ DOMAIN autodel \subseteq AllPaths

(***************************************************************************)
(* Option resolution on its own: fill_options and create_config applied to  *)
(* a wider range of option maps and to both topologies                      *)
(***************************************************************************)
BasePortTexts ==
  { <<"1">>, <<"7", "0", "0", "0">>, <<"6", "5", "5", "3", "5">>,
    <<"0">>, <<"-", "1">>, <<"6", "5", "5", "3", "6">>, <<"7", "0", "x">>,
    <<"x">>, <<>> }

BindAddressTexts == ValidAddresses \cup {<<"bad", ":", ":">>}

OptionMaps ==
  { b @@ a @@ u @@ t :
      b \in {NoOptions} \cup {"base-port" :> x : x \in BasePortTexts},
      a \in {NoOptions} \cup {"bind-address" :> x : x \in BindAddressTexts},
      u \in {NoOptions, "use-sockets" :> <<>>},
      t \in {NoOptions, "skip-tcp" :> <<>>} }

InitOptions ==
  /\ mode \in {"system", "directory"}
  /\ run = 0
  /\ pc = "options_input"
  /\ exc = <<>>
  /\ thrown_at = "none"
  /\ user_options \in OptionMaps
  /\ keyring_master_key_file = <<>>
  /\ fs = EmptyFS
  /\ autodel = NoFiles
  /\ tracking = <<>>
  /\ created = {}
  /\ keyring_init = FALSE
  /\ keyring = {}
  /\ master_key = <<>>
  /\ prompted = <<>>
  /\ routers = {}
  /\ nextid = 2
  /\ txn = "none"
  /\ pending = 0
  /\ dblog = <<>>
  /\ router_name = <<>>
  /\ rows = <<>>
  /\ metadata_cluster = <<"clusterA">>
  /\ metadata_replicaset = <<"default">>
  /\ bootstrap_servers = <<"mysql://", "h1:3306">>
  /\ multi_master \in BOOLEAN
  /\ router_id = 1
  /\ opts = DefaultOptions
  /\ stmt = 1
  /\ rendered = <<>>
  /\ fs0 = fs
  /\ last = NoRun
  /\ replaced = <<>>
  /\ used = {}

\* fill_options is applied to the option map
ResolveOptions ==
  /\ pc = "options_input"
  /\ LET o == DeploymentOptions(mode, user_options)
     IN IF FillOptionsThrows(o)
        THEN /\ pc' = "options_rejected"
             /\ exc' = <<"Invalid base-port or bind-address value">>
             /\ UNCHANGED opts
        ELSE /\ pc' = "options_resolved"
             /\ opts' = fill_options(multi_master, o)
             /\ UNCHANGED exc
  /\ UNCHANGED <<run, thrown_at, inputVars, fsVars, keyVars, dbVars, fetchVars,
                 router_name, router_id, stmt, rendered, histVars>>

\* create_config is applied to the resolved options
RenderOptions ==
  /\ pc = "options_resolved"
  /\ pc' = "options_rendered"
  /\ rendered' = create_config(router_id, router_name, bootstrap_servers,
                               metadata_cluster, metadata_replicaset,
                               Username(router_id), opts)
  /\ UNCHANGED <<run, exc, thrown_at, inputVars, fsVars, keyVars, dbVars,
                 fetchVars, router_name, router_id, opts, stmt, histVars>>

NextOptions == ResolveOptions \/ RenderOptions

SpecOptions == InitOptions /\ [][NextOptions]_vars

(***************************************************************************)
(* Metadata discovery on its own: fetch_bootstrap_servers applied to a      *)
(* wider range of result sets                                               *)
(***************************************************************************)
\* the rows a result set is made of: the cluster name, the replicaset name
\* and the topology type may be NULL, the names may be empty
TopologyRows ==
  { <<c, r, t, Col(<<"h1:3306">>)>> :
      c \in {NullCol, Col(<<>>), Col(<<"clusterA">>), Col(<<"clusterB">>)},
      r \in {NullCol, Col(<<"default">>), Col(<<"other">>)},
      t \in {NullCol, Col(<<"mm">>), Col(<<"pm">>), Col(<<"xx">>)} }

TopologyResults == UNION { [1..n -> TopologyRows] : n \in 0..MaxRows }

InitFetch ==
  /\ mode \in {"system", "directory"}
  /\ run = 0
  /\ pc = "fetch_input"
  /\ exc = <<>>
  /\ thrown_at = "none"
  /\ user_options = NoOptions
  /\ keyring_master_key_file = <<>>
  /\ fs = EmptyFS
  /\ autodel = NoFiles
  /\ tracking = <<>>
  /\ created = {}
  /\ keyring_init = FALSE
  /\ keyring = {}
  /\ master_key = <<>>
  /\ prompted = <<>>
  /\ routers = {}
  /\ nextid = 2
  /\ txn = "none"
  /\ pending = 0
  /\ dblog = <<>>
  /\ router_name = <<>>
  /\ rows \in TopologyResults
  /\ metadata_cluster = <<>>
  /\ metadata_replicaset = <<>>
  /\ bootstrap_servers = <<>>
  /\ multi_master = FALSE
  /\ router_id = 0
  /\ opts = DefaultOptions
  /\ stmt = 1
  /\ rendered = <<>>
  /\ fs0 = fs
  /\ last = NoRun
  /\ replaced = <<>>
  /\ used = {}

\* fetch_bootstrap_servers is applied to the result set
Discover ==
  /\ pc = "fetch_input"
  /\ LET r == fetch_bootstrap_servers(rows, multi_master)
     IN IF r.err # <<>>
        THEN /\ pc' = "fetch_failed"
             /\ exc' = r.err
             /\ UNCHANGED <<metadata_cluster, metadata_replicaset,
                            bootstrap_servers, multi_master>>
        ELSE /\ pc' = "fetch_done"
             /\ metadata_cluster' = r.metadata_cluster
             /\ metadata_replicaset' = r.metadata_replicaset
             /\ bootstrap_servers' = r.bootstrap_servers
             /\ multi_master' = r.multi_master
             /\ UNCHANGED exc
  /\ UNCHANGED <<run, thrown_at, inputVars, fsVars, keyVars, routers, nextid,
                 txn, pending, dblog, rows, locVars, histVars>>

NextFetch == Discover

SpecFetch == InitFetch /\ [][NextFetch]_vars

(***************************************************************************)
(* get_router_id_from_config_file over existing configuration files         *)
(***************************************************************************)
\* longest router_id value tried
MaxIdLen == 2

\* the characters a router_id value is made of: two digits and a letter
IdChars == {"1", "2", "x"}

\* the values of router_id, the empty one included
RouterIdTexts ==
  UNION {[1..n -> IdChars] : n \in 0..MaxIdLen}

\* no router_id line, or one with any of the values
RouterIdLines ==
  {<<>>} \cup {<< <<"router_id=">> \o t >> : t \in RouterIdTexts}

\* no metadata_cluster line, or one naming either cluster
ClusterLines ==
  {<<>>} \cup {<< <<"metadata_cluster=", c>> >> : c \in {"clusterA", "clusterB"}}

\* one metadata_cache section
MetadataCacheLines(name, idl, cll) ==
  << <<"[metadata_cache:", name, "]">> >> \o idl \o cll \o << <<"ttl=300">>, <<>> >>

\* configuration files with no, one or two metadata_cache sections
ExistingConfigs ==
  LET head == << <<"[DEFAULT]">>, <<"name=", "r1">>, <<>> >>
  IN {head}
     \cup {head \o MetadataCacheLines("clusterA", idl, cll) :
             idl \in RouterIdLines, cll \in ClusterLines}
     \cup {head \o MetadataCacheLines("clusterA", idl, cll)
                \o MetadataCacheLines("other", << <<"router_id=", "2">> >>,
                                      << <<"metadata_cluster=", "clusterB">> >>) :
             idl \in RouterIdLines, cll \in ClusterLines}

InitRecover ==
  /\ mode = "directory"
  /\ run = 0
  /\ pc = "recover_input"
  /\ exc = <<>>
  /\ thrown_at = "none"
  /\ user_options \in {NoOptions, "force" :> <<>>}
  /\ keyring_master_key_file = <<>>
  /\ \E cfg \in ExistingConfigs :
       fs = [p \in AllPaths |->
               IF p = Directory THEN DirNode
               ELSE IF p = ConfigFilePath THEN File(cfg)
               ELSE Absent]
  /\ autodel = NoFiles
  /\ tracking = <<>>
  /\ created = {}
  /\ keyring_init = FALSE
  /\ keyring = {}
  /\ master_key = <<>>
  /\ prompted = <<>>
  /\ routers = {}
  /\ nextid = 2
  /\ txn = "none"
  /\ pending = 0
  /\ dblog = <<>>
  /\ router_name = <<>>
  /\ rows = <<>>
  /\ metadata_cluster = <<"clusterA">>
  /\ metadata_replicaset = <<>>
  /\ bootstrap_servers = <<>>
  /\ multi_master = FALSE
  /\ router_id = 0
  /\ opts = DefaultOptions
  /\ stmt = 1
  /\ rendered = <<>>
  /\ fs0 = fs
  /\ last = NoRun
  /\ replaced = <<>>
  /\ used = {}

\* get_router_id_from_config_file is applied to the file
Recover ==
  /\ pc = "recover_input"
  /\ LET r == get_router_id_from_config_file(fs[ConfigFilePath].data,
                metadata_cluster, Has(user_options, "force"))
     IN IF r.err # <<>>
        THEN pc' = "recover_failed" /\ exc' = r.err /\ UNCHANGED router_id
        ELSE pc' = "recover_done" /\ router_id' = r.id /\ UNCHANGED exc
  /\ UNCHANGED <<run, thrown_at, inputVars, fsVars, keyVars, dbVars, fetchVars,
                 router_name, opts, stmt, rendered, histVars>>

NextRecover == Recover

SpecRecover == InitRecover /\ [][NextRecover]_vars

(***************************************************************************)
(* Properties                                                               *)
(***************************************************************************)
Sent(entry) == \E i \in 1..Len(dblog) : dblog[i] = entry

\* the attempt has touched neither the filesystem, nor the keyring, nor the
\* metadata server
NothingDone == fs = fs0 /\ ~keyring_init /\ dblog = <<>>

\* C1: an attempt that ends in an error, whichever of these steps fails
\* (directory creation, temp-file open, keyring init, discovery, identity
\* lookup or registration, option resolution, keyring flush, account
\* creation, metadata write-back, backup, config rename, master-key file
\* rename, script creation), leaves at the target configuration path the
\* content it had before the attempt (or nothing, if it was absent).
C1_FailureKeepsConfig ==
  (pc = "failed" /\ thrown_at \in
     {"mkdir_dir", "mkdir_log", "mkdir_run", "open_tmp", "init_keyring",
      "fetch", "get_id", "check_id", "register", "fill_options", "store",
      "account", "update_info", "backup", "rename_conf", "rename_key",
      "scripts"})
  => fs[ConfigFilePath] = fs0[ConfigFilePath]

RepeatsLast ==
  /\ last.valid
  /\ last.user_options = user_options
  /\ last.keyring_master_key_file = keyring_master_key_file
  /\ last.rows = rows
  /\ fs0[ConfigFilePath] = File(last.rendered)
  /\ RouterKnown(routers, last.router_id)

\* C3: a successful attempt that repeats the previous successful one reuses
\* its router id without registering a router, renders the same bytes,
\* leaves them at the target path and does not touch the .bak file.
C3_Idempotent ==
  [][(pc # "done" /\ pc' = "done" /\ RepeatsLast) =>
       /\ router_id = last.router_id
       /\ ~Sent("register_router")
       /\ rendered = last.rendered
       /\ fs'[ConfigFilePath] = File(last.rendered)
       /\ fs'[BakPath(ConfigFilePath)] = fs0[BakPath(ConfigFilePath)]]_vars

\* C3 witness: the second of two equal attempts is about to return.
C3_Witness ==
  /\ pc = "private"
  /\ run = 2
  /\ RepeatsLast
  /\ rendered = last.rendered
  /\ fs[ConfigFilePath] = File(rendered)

\* C4: after a successful attempt over an existing configuration, .bak holds
\* the previous content and the target the new one when the two differ, and
\* .bak is as it was before when they are equal; after any sequence of
\* successful attempts .bak, when present, is the latest configuration that
\* was replaced by a different one, and is absent when there was none.
C4_Backup ==
  pc = "done" =>
    /\ Exists(fs0, ConfigFilePath) =>
         IF File(rendered) # fs0[ConfigFilePath]
         THEN /\ fs[BakPath(ConfigFilePath)] = fs0[ConfigFilePath]
              /\ fs[ConfigFilePath] = File(rendered)
         ELSE fs[BakPath(ConfigFilePath)] = fs0[BakPath(ConfigFilePath)]
    /\ IF replaced # <<>>
       THEN fs[BakPath(ConfigFilePath)] = File(replaced)
       ELSE ~Exists(fs, BakPath(ConfigFilePath))

\* C4 witness: the second successful attempt replaced the configuration that
\* the first one had written over an older one.
C4_Witness ==
  /\ pc = "done"
  /\ run = 2
  /\ Exists(fs0, BakPath(ConfigFilePath))
  /\ fs[BakPath(ConfigFilePath)] = fs0[ConfigFilePath]
  /\ fs[BakPath(ConfigFilePath)] # fs0[BakPath(ConfigFilePath)]
  /\ fs[ConfigFilePath] = File(rendered)

\* C5: when a statement of account creation fails in a directory deployment,
\* the target configuration file is not replaced and no directory that the
\* attempt created remains.
C5_AccountFailureUnwinds ==
  (pc = "failed" /\ mode = "directory" /\ thrown_at = "account") =>
    /\ fs[ConfigFilePath] = fs0[ConfigFilePath]
    /\ \A d \in created : ~Exists(fs, d)

\* C6: after an attempt that ended in an error the keyring file holds no
\* secret generated during that attempt.
C6_NoNewSecretAfterFailure ==
  (pc = "failed" /\ Exists(fs, KeyringPath(mode))) =>
    \A e \in fs[KeyringPath(mode)].data : e[2] # generate_password(run)

\* C7: a directory deployment ends with the transaction committed exactly
\* when it ends with the ledger of the guard cleared and its files kept.
C7_CommitAgrees ==
  (mode = "directory" /\ pc \in {"done", "failed"}) =>
    (txn = "committed" <=> pc = "done")

\* a name the entry point has to refuse
RefusedName(m, options) ==
  /\ Has(options, "name")
  /\ \/ \E i \in 1..Len(options["name"]) : options["name"][i] \in {"\n", "\r"}
     \/ TextLen(options["name"]) > 255
     \/ m = "directory" /\ options["name"] = <<"system">>

\* C8: an attempt whose router name holds a line feed or a carriage return,
\* is longer than 255 bytes or, in a directory deployment, is "system", fails
\* at the name check, before any filesystem, keyring or database operation.
C8_BadNameRejectedFirst ==
  (run > 0 /\ RefusedName(mode, user_options)) =>
    /\ pc \in {"check_name", "throw", "failed", "crashed"}
    /\ pc \in {"throw", "failed"} => thrown_at = "check_name"
    /\ NothingDone
    /\ autodel = NoFiles

\* C8 witness: an attempt with such a name has failed.
C8_Witness ==
  /\ pc = "failed"
  /\ RefusedName(mode, user_options)
  /\ thrown_at = "check_name"

\* C9: when fill_options rejects base-port or bind-address, nothing has been
\* created, opened, initialised or sent yet.
C9_OptionsRejectedFirst ==
  (pc = "throw" /\ thrown_at = "fill_options") => NothingDone

\* a [routing:...] section for a read-only endpoint
HasReadOnlySection(cfg) ==
  \E i \in 1..Len(cfg) :
    /\ cfg[i] # <<>>
    /\ cfg[i][1] = "[routing:"
    /\ cfg[i][Len(cfg[i]) - 1] \in {"_ro", "_x_ro"}

\* C10: options resolved for a multi-primary topology have no read-only
\* endpoint (port 0 and no socket, classic and X), and the configuration
\* rendered from them has no _ro routing section.
C10_NoReadOnlyInMultiPrimary ==
  (pc \in {"options_resolved", "options_rendered"} /\ multi_master) =>
    /\ opts.ro_endpoint.port = 0 /\ opts.ro_endpoint.socket = <<>>
    /\ opts.ro_x_endpoint.port = 0 /\ opts.ro_x_endpoint.socket = <<>>
    /\ ~HasReadOnlySection(rendered)

\* C10 witness: a configuration was rendered for a multi-primary topology
\* with sockets and ports requested.
C10_Witness ==
  /\ pc = "options_rendered"
  /\ multi_master
  /\ Has(user_options, "use-sockets")
  /\ Has(user_options, "base-port")
  /\ ~Has(user_options, "skip-tcp")
  /\ opts.rw_endpoint.port > 0
  /\ opts.rw_x_endpoint.socket # <<>>

\* the base-port value as fill_options reads it
BasePortOf(o) == Strtol(o["base-port"]).val

\* the four resolved ports, in the order RW-classic, RO-classic, RW-X, RO-X
PortsOf(o) ==
  <<o.rw_endpoint.port, o.ro_endpoint.port,
    o.rw_x_endpoint.port, o.ro_x_endpoint.port>>

\* C11: with TCP not skipped, a supplied base-port B gives B, B+1, B+2, B+3
\* to RW-classic, RO-classic, RW-X, RO-X in a single-primary topology and
\* B, B+1 to RW-classic, RW-X (read-only endpoints without port) in a
\* multi-primary topology; without base-port the ports are the defaults
\* 6446, 6447, 64460, 64470 for the same endpoints.
C11_PortsInOrder ==
  (pc \in {"options_resolved", "options_rendered"}
     /\ ~Has(user_options, "skip-tcp")) =>
    IF Has(user_options, "base-port")
    THEN LET B == BasePortOf(user_options)
         IN PortsOf(opts) = IF multi_master
                            THEN <<B, 0, B + 1, 0>>
                            ELSE <<B, B + 1, B + 2, B + 3>>
    ELSE PortsOf(opts) = IF multi_master
                         THEN <<6446, 0, 64460, 0>>
                         ELSE <<6446, 6447, 64460, 64470>>

\* C11 witness: base-port 7000 resolved for a single-primary topology gives
\* 7000, 7001, 7002, 7003.
C11_Witness ==
  /\ pc = "options_resolved"
  /\ ~multi_master
  /\ Has(user_options, "base-port")
  /\ user_options["base-port"] = <<"7", "0", "0", "0">>
  /\ ~Has(user_options, "skip-tcp")
  /\ PortsOf(opts) = <<7000, 7001, 7002, 7003>>

\* C12: every resolved endpoint port is 0 (unset) or within 1..65535.
C12_PortsInRange ==
  pc \in {"options_resolved", "options_rendered"} =>
    \A i \in 1..4 : PortsOf(opts)[i] \in 0..65535

\* some row's cluster name differs from the first row's
ClusterDiffers(result) ==
  \E i \in 1..Len(result) : get_string(result[i][1]) # get_string(result[1][1])

\* some row's replicaset name differs from the first row's
ReplicasetDiffers(result) ==
  \E i \in 1..Len(result) : get_string(result[i][2]) # get_string(result[1][2])

\* every topology type of the result set is NULL, "mm" or "pm"
TypesKnown(result) ==
  \A i \in 1..Len(result) :
    result[i][3].null \/ result[i][3].s \in {<<"mm">>, <<"pm">>}

\* the first row carries a cluster name and a replicaset name
FirstRowNamed(result) ==
  get_string(result[1][1]) # <<>> /\ get_string(result[1][2]) # <<>>

\* C13: a result set in which some row's cluster name (replicaset name)
\* differs from the first row's, the first row's being possibly empty or
\* NULL, makes discovery fail, with the 'more than one cluster' ('more than
\* one replica-set') error when the first row is named and nothing else is
\* wrong with the result set.
C13_SecondClusterRefused ==
  (pc \in {"fetch_done", "fetch_failed"}
     /\ (ClusterDiffers(rows) \/ ReplicasetDiffers(rows))) =>
    /\ pc = "fetch_failed"
    /\ (TypesKnown(rows) /\ FirstRowNamed(rows) /\ ~ReplicasetDiffers(rows)) =>
          exc = <<"Metadata contains more than one cluster">>
    /\ (TypesKnown(rows) /\ FirstRowNamed(rows) /\ ~ClusterDiffers(rows)) =>
          exc = <<"Metadata contains more than one replica-set">>

\* C14: discovery never succeeds with a multi_master flag that disagrees
\* with the topology type of a returned row, and an unrecognised non-null
\* type in any row makes it fail.
C14_TopologyTypeAgrees ==
  /\ pc = "fetch_done" =>
       \A i \in 1..Len(rows) :
         ~rows[i][3].null => (multi_master <=> rows[i][3].s = <<"mm">>)
  /\ (pc \in {"fetch_done", "fetch_failed"} /\ ~TypesKnown(rows)) =>
       pc = "fetch_failed"

\* the deployment directory existed before the attempt with at least one
\* entry and without mysqlrouter.conf, and force is not requested
OccupiedDirectory ==
  /\ mode = "directory"
  /\ Exists(fs0, Directory)
  /\ ~is_directory_empty(fs0, Directory)
  /\ ~Exists(fs0, ConfigFilePath)
  /\ ~Has(user_options, "force")

\* C15: a directory deployment into an existing directory that contains an
\* entry, has no mysqlrouter.conf and is requested without force gets no
\* further than the emptiness check and fails there (or at the name check
\* before it) with nothing created and nothing sent to the database; the
\* emptiness check fails in no other situation.
C15_OccupiedDirectoryRefused ==
  /\ (run > 0 /\ OccupiedDirectory) =>
       /\ pc \in {"check_name", "mkdir_dir", "check_empty", "throw", "failed",
                  "crashed"}
       /\ pc \in {"throw", "failed"} => thrown_at \in {"check_name", "check_empty"}
       /\ NothingDone
       /\ autodel = NoFiles
       /\ created = {}
  /\ (pc \in {"throw", "failed"} /\ thrown_at = "check_empty") => OccupiedDirectory

\* C15 witness: the attempt was refused at the emptiness check because of a
\* file of somebody else in the directory.
C15_Witness ==
  /\ pc = "failed"
  /\ thrown_at = "check_empty"
  /\ OccupiedDirectory
  /\ IsFile(fs, ForeignFile)
  /\ exc = <<"Directory already exits">>

\* the cluster name recorded in a configuration file, <<>> when there is none
ExistingCluster(cfg) ==
  LET sections == SectionsOf(cfg, "[metadata_cache:")
      i == CHOOSE k \in sections : TRUE
  IN IF sections # {} /\ SectionHas(cfg, i, "metadata_cluster=")
     THEN SectionGet(cfg, i, "metadata_cluster=") ELSE <<>>

\* the configuration file found by the attempt records another cluster than
\* the one discovered
ClusterMismatch ==
  /\ metadata_cluster # <<>>
  /\ IsFile(fs0, ConfigFilePath)
  /\ ExistingCluster(fs0[ConfigFilePath].data) # metadata_cluster

\* the positions of an attempt after the lookup of the router id
AfterGetId ==
  {"begin", "check_id", "register", "fill_options", "store", "account",
   "update_info", "create_config", "commit", "backup", "rename_conf",
   "rename_key", "private", "scripts", "done"}

\* C16: when the existing configuration records another cluster and force is
\* not set, the attempt fails at the lookup of the router id with an error
\* that names the existing cluster and suggests --force, before any
\* registration, keyring store, account statement or metadata update, and
\* the configuration file is unchanged; with force the attempt goes on with
\* router_id 0 and registers a new router.
C16_ClusterMismatch ==
  /\ (run > 0 /\ ClusterMismatch /\ ~Has(user_options, "force")) =>
       /\ pc \in {"get_id", "throw", "failed", "crashed"}
       /\ pc \in {"throw", "failed"} =>
            /\ thrown_at = "get_id"
            /\ exc = <<"The given Router instance is already configured for a cluster named '">>
                     \o ExistingCluster(fs0[ConfigFilePath].data)
                     \o <<"'.", "\n", "If you'd like to replace it, please use the --force configuration option.">>
  /\ (pc \in {"throw", "failed"} /\ thrown_at = "get_id") =>
       /\ ClusterMismatch
       /\ ~Sent("register_router")
       /\ ~Sent("update_router_info")
       /\ \A k \in 1..Len(AccountStatements) : ~Sent(AccountStatements[k])
       /\ fs[KeyringPath(mode)] = fs0[KeyringPath(mode)]
       /\ fs[ConfigFilePath] = fs0[ConfigFilePath]
  /\ (ClusterMismatch /\ Has(user_options, "force") /\ pc \in AfterGetId) =>
       /\ pc = "begin" => router_id = 0
       /\ ~Sent("check_router_id")
       /\ pc \notin {"begin", "register"} =>
            Sent("register_router") /\ router_id \notin {0, 1}

\* C16 witness: an attempt against clusterB over the configuration of
\* clusterA, without force, has failed at the lookup.
C16_Witness ==
  /\ pc = "failed"
  /\ thrown_at = "get_id"
  /\ ~Has(user_options, "force")
  /\ metadata_cluster = <<"clusterB">>
  /\ ExistingCluster(fs0[ConfigFilePath].data) = <<"clusterA">>

\* the user was asked for the master key in this attempt and the last answer
\* was the empty string
EmptyKeyEntered ==
  /\ MasterKeyFileUsed(mode, keyring_master_key_file) = <<>>
  /\ prompted # <<>>
  /\ prompted[Len(prompted)] = <<>>

\* C17: when no master key file is given and the user enters the empty
\* string at the prompt, a keyring file existing or not, the attempt ends
\* with the silent exception and the keyring is never initialised with the
\* empty key.
C17_EmptyKeyCancels ==
  EmptyKeyEntered =>
    /\ pc \in {"throw", "failed", "crashed"}
    /\ pc \in {"throw", "failed"} =>
         thrown_at = "init_keyring" /\ exc = <<"silent_exception">>
    /\ ~keyring_init

\* C18: when a directory deployment is cancelled at the master key prompt,
\* what the attempt created before the prompt (the deployment directory, log,
\* run, mysqlrouter.conf.tmp) is gone when the abort is returned, what
\* existed before still exists, and nothing was sent to the database.
C18_AbortCleansUp ==
  (mode = "directory" /\ pc = "failed" /\ exc = <<"silent_exception">>) =>
    /\ \A d \in created : ~Exists(fs, d)
    /\ ~Exists(fs, TmpPath(ConfigFilePath))
    /\ \A p \in AllPaths : Exists(fs0, p) => fs[p] = fs0[p]
    /\ dblog = <<>>

\* C18 witness: the abort was returned by an attempt that had created the
\* deployment directory, log and run.
C18_Witness ==
  /\ mode = "directory"
  /\ pc = "failed"
  /\ exc = <<"silent_exception">>
  /\ created = {Directory, LogDir, RunDir}
  /\ fs = EmptyFS

\* C18 witness, existing directory: the abort was returned by an attempt in a
\* directory that existed, which is still there without log and run.
C18_Witness_existing ==
  /\ mode = "directory"
  /\ pc = "failed"
  /\ exc = <<"silent_exception">>
  /\ created = {LogDir, RunDir}
  /\ IsDir(fs, Directory)

\* number of times an entry was sent to the metadata server in this attempt
Count(entry) == Cardinality({i \in 1..Len(dblog) : dblog[i] = entry})

\* the router id the attempt recovered from the configuration file it found
Recovered ==
  get_router_id_from_config_file(fs0[ConfigFilePath].data, metadata_cluster,
                                 Has(user_options, "force")).id

\* the uses of a router id that the attempt has made after the check
Uses == {u \in used : u[1] \notin {"check passed", "check failed"}}

\* the positions of an attempt after the registration
AfterRegister == AfterGetId \ {"begin", "check_id", "register"}

\* C19: when the router id recovered from the configuration fails the check
\* against the metadata store, the attempt does not fail there: router_id
\* falls back to 0, exactly one registration is attempted, and the id it
\* returns, not the stale one, is the id of the account name, of the metadata
\* write-back and of the configuration written. When the check succeeds no
\* registration is attempted and the recovered id is the one used.
C19_IdentityLifecycle ==
  pc # "crashed" =>
    /\ \A c \in used \ Uses :
         /\ c[2] = Recovered /\ c[2] > 0
         /\ pc # "done" => (c[1] = "check passed" <=> RouterKnown(routers, c[2]))
    /\ \A c \in used :
         c[1] = "check failed" =>
           /\ pc \in {"throw", "failed"} => thrown_at # "check_id"
           /\ pc = "register" => router_id = 0 /\ ~Sent("register_router")
           /\ Count("register_router") <= 1
           /\ pc \in AfterRegister =>
                /\ Count("register_router") = 1
                /\ router_id > 0
                /\ router_id # c[2]
           /\ \A u \in Uses : u[2] = router_id /\ u[2] # c[2]
           /\ pc = "done" =>
                /\ {u[1] : u \in Uses} =
                     {"username", "account", "update_router_info", "config"}
                /\ get_router_id_from_config_file(fs[ConfigFilePath].data,
                                                  metadata_cluster, FALSE).id = router_id
    /\ \A c \in used :
         c[1] = "check passed" =>
           /\ ~Sent("register_router")
           /\ router_id = c[2]
           /\ \A u \in Uses : u[2] = c[2]

\* C19 witness: an attempt that recovered router id 1, found it unknown to
\* the metadata store and registered anew has succeeded with the new id.
C19_Witness ==
  /\ pc = "done"
  /\ <<"check failed", 1>> \in used
  /\ Recovered = 1
  /\ router_id = 2
  /\ <<"update_router_info", 2>> \in used

\* C19 witness, known id: an attempt whose recovered id passed the check has
\* succeeded with it.
C19_Witness_known ==
  /\ pc = "done"
  /\ \E c \in used : c[1] = "check passed" /\ <<"config", c[2]>> \in used
  /\ ~Sent("register_router")

\* C20: a registration that fails with error 1062 ends the attempt with the
\* 'router instance named ... previously configured ... use the --force
\* option' error, one that fails with another code with the 'While
\* registering router instance' error; in both cases nothing is stored in or
\* flushed to the keyring, no account statement and no metadata update is
\* sent, the transaction is not committed and registration is not retried.
C20_RegistrationErrors ==
  (pc \in {"throw", "failed"} /\ thrown_at = "register") =>
    /\ Sent("ERROR 1062") =>
         exc = <<"It appears that a router instance named '">> \o router_name
               \o <<"' has been previously configured in this host. If that instance no longer exists, use the --force option to overwrite it.">>
    /\ ~Sent("ERROR 1062") =>
         exc = <<"While registering router instance in metadata server: ">>
    /\ Count("register_router") = 1
    /\ keyring = LoadKeyring(fs0, KeyringPath(mode))
    /\ fs[KeyringPath(mode)] = fs0[KeyringPath(mode)]
    /\ \A k \in 1..Len(AccountStatements) : ~Sent(AccountStatements[k])
    /\ ~Sent("update_router_info")
    /\ ~Sent("COMMIT")
    /\ txn # "committed"
    /\ Uses = {}

\* C20 witness: the attempt has failed on a duplicate key at registration.
C20_Witness ==
  /\ pc = "failed"
  /\ thrown_at = "register"
  /\ Sent("ERROR 1062")
  /\ router_name = <<"r1">>
  /\ txn = "rolledback"

\* C20 witness, other code: the attempt has failed on another error at
\* registration.
C20_Witness_other ==
  /\ pc = "failed"
  /\ thrown_at = "register"
  /\ Sent("ERROR 1045")

\* the value of an option of the [DEFAULT] section of a configuration file
DefaultGet(cfg, key) ==
  SectionGet(cfg, CHOOSE i \in SectionsOf(cfg, "[DEFAULT]") : TRUE, key)

\* C21: after a successful directory deployment with a master key file, the
\* master_key_path written in [DEFAULT] of the installed configuration is
\* the path at which the master key file exists at the end of the attempt.
C21_MasterKeyPathExists ==
  (mode = "directory" /\ pc = "done" /\ keyring_master_key_file # <<>>) =>
    /\ DefaultGet(fs[ConfigFilePath].data, "master_key_path=") = keyring_master_key_file
    /\ IsFile(fs, DefaultGet(fs[ConfigFilePath].data, "master_key_path="))

\* C22: the transaction is committed last: whenever it is committed, the new
\* configuration is already in place at the target path.
C22_CommitLast ==
  txn = "committed" => fs[ConfigFilePath] = File(rendered)

\* the entries of the log that discovery, the identity check, registration
\* and the metadata write-back leave
TransactionalEntries ==
  {"SELECT topology", "check_router_id", "register_router", "update_router_info"}

\* C23: discovery, the identity check or registration and the metadata
\* write-back are sent after the one START TRANSACTION of the attempt and
\* before its COMMIT.
C23_InsideOneTransaction ==
  /\ Count("START TRANSACTION") <= 1
  /\ \A i \in 1..Len(dblog) :
       dblog[i] \in TransactionalEntries =>
         /\ \E j \in 1..(i - 1) : dblog[j] = "START TRANSACTION"
         /\ \A j \in 1..(i - 1) : dblog[j] # "COMMIT"

\* a sequence back to front
Reverse(s) == [i \in 1..Len(s) |-> s[Len(s) + 1 - i]]

\* C24: when the guard of a directory deployment is torn down with an
\* exception in flight, it visits the paths it tracks in the reverse of the
\* order in which they were tracked.
C24_ReverseTrackingOrder ==
  (mode = "directory" /\ pc = "throw") =>
    DtorVisits(autodel) = Reverse(tracking)

\* the directories that existed when the attempt started
PreExistingDirs == {p \in AllPaths : IsDir(fs0, p)}

\* a failed directory deployment whose guard has been torn down
FailedDirectoryDeployment == mode = "directory" /\ pc = "failed"

C25_Witness_done ==
  mode = "directory" /\ pc = "done" /\ ~Exists(fs0, Directory) /\ IsDir(fs, LogDir)

\* an account statement has been sent in this attempt
AccountStatementSent ==
  \E i \in 1..Len(dblog) : \E k \in 1..Len(AccountStatements) :
    dblog[i] = AccountStatements[k]

\* the flush of the keyring failed in this attempt
FlushFailed == pc \in {"throw", "failed"} /\ thrown_at = "store"

\* C26: whenever an account statement has been sent, the keyring holds the
\* secret under the account name of the router and has been flushed to its
\* file; when the flush fails the attempt ends with an error and sends no
\* account statement, no metadata write-back and no COMMIT.
C26_SecretStoredFirst ==
  /\ (AccountStatementSent /\ pc # "failed") =>
       /\ <<Username(router_id), generate_password(run)>> \in keyring
       /\ IsFile(fs, KeyringPath(mode))
       /\ <<Username(router_id), generate_password(run)>> \in fs[KeyringPath(mode)].data
  /\ FlushFailed =>
       /\ exc = <<"Error storing encrypted password to disk">>
       /\ ~AccountStatementSent
       /\ ~Sent("update_router_info")
       /\ ~Sent("COMMIT")
       /\ txn # "committed"

\* the flush failed and the attempt has ended with the error
C26_Witness == FlushFailed /\ pc = "failed" /\ Sent("START TRANSACTION")

\* the first account statement has just been sent after a successful flush
C26_Witness_sent == pc = "account" /\ stmt = 2 /\ AccountStatementSent

\* the account statements and explicit ROLLBACKs sent in this attempt, in the
\* order they were sent
AccountLog ==
  SelectSeq(dblog, LAMBDA e : e \in {"DROP USER IF EXISTS", "CREATE USER",
                                     "GRANT SELECT ON mysql_innodb_cluster_metadata.*",
                                     "GRANT SELECT ON performance_schema.replication_group_members",
                                     "ROLLBACK"})

\* the four statements in the order they are to be sent
ExpectedAccountLog ==
  <<"DROP USER IF EXISTS", "CREATE USER",
    "GRANT SELECT ON mysql_innodb_cluster_metadata.*",
    "GRANT SELECT ON performance_schema.replication_group_members">>

\* create_account has failed in this attempt
AccountFailed == pc \in {"throw", "failed"} /\ thrown_at = "account"

\* C27: the account statements are sent in the order DROP USER IF EXISTS,
\* CREATE USER, GRANT on the metadata schema, GRANT on
\* replication_group_members, each at most once; when statement k fails one
\* ROLLBACK follows it and nothing else, and the error of create_account is
\* reported whether or not the ROLLBACK succeeded.
C27_AccountStatements ==
  /\ ~AccountFailed =>
       \E k \in 0..4 : AccountLog = SubSeq(ExpectedAccountLog, 1, k)
  /\ AccountFailed =>
       /\ \E k \in 1..4 :
            AccountLog = SubSeq(ExpectedAccountLog, 1, k) \o <<"ROLLBACK">>
       /\ dblog[Len(dblog) - (IF pc = "failed" THEN 1 ELSE 0)] = "ROLLBACK"
       /\ exc = <<"Error creating MySQL account for router">>
       /\ ~Sent("update_router_info") /\ ~Sent("COMMIT")

\* CREATE USER failed and the ROLLBACK after it failed too
C27_Witness ==
  /\ AccountFailed /\ pc = "throw" /\ txn = "open"
  /\ AccountLog = <<"DROP USER IF EXISTS", "CREATE USER", "ROLLBACK">>

\* all four statements went through
C27_Witness_all == pc = "update_info" /\ AccountLog = ExpectedAccountLog

\* the attempt failed at a step after <config>.tmp had been opened
FailedAfterOpen ==
  /\ pc = "failed"
  /\ thrown_at \notin {"none", "check_name", "mkdir_dir", "check_empty",
                       "mkdir_log", "mkdir_run", "open_tmp"}

\* C28: in both entry modes, when an attempt fails at a step after
\* <config>.tmp has been opened, <config>.tmp no longer exists once the error
\* has been returned.
C28_TmpRemovedOnAbort ==
  FailedAfterOpen => ~Exists(fs, TmpPath(ConfigFilePath))

\* the index of the [metadata_cache:...] section of a configuration
MetadataCacheSection(cfg) == CHOOSE i \in SectionsOf(cfg, "[metadata_cache:") : TRUE

\* C29: once the attempt has its router id (recovered and validated, or
\* registered), the id is not zero and every later step uses that same id:
\* the keyring entry is stored under mysql_innodb_cluster_router<id>, the
\* account, the metadata write-back and the configuration take this id, and
\* the [metadata_cache] section written has router_id=<id> and
\* user=mysql_innodb_cluster_router<id>.
C29_IdentityStable ==
  pc # "crashed" =>
    /\ pc \in AfterRegister => router_id > 0
    /\ \A u \in Uses : u[2] = router_id /\ u[2] > 0
    /\ (<<"username", router_id>> \in used) =>
         \E e \in keyring :
           e[1] = <<"mysql_innodb_cluster_router">> \o ToDecimal(router_id)
    /\ pc \in {"commit", "done"} =>
         LET cfg == IF pc = "done" THEN fs[ConfigFilePath].data ELSE rendered
             i == MetadataCacheSection(cfg)
         IN /\ SectionGet(cfg, i, "router_id=") = ToDecimal(router_id)
            /\ SectionGet(cfg, i, "user=") =
                 <<"mysql_innodb_cluster_router">> \o ToDecimal(router_id)

\* a second attempt that recovered and validated id 1 has installed its
\* configuration
C29_Witness ==
  /\ pc = "done" /\ run = 2 /\ router_id = 1
  /\ <<"check passed", 1>> \in used
  /\ {u[1] : u \in Uses} = {"username", "account", "update_router_info", "config"}

\* an attempt that registered anew has installed its configuration
C29_Witness_registered ==
  /\ pc = "done" /\ Sent("register_router") /\ router_id > 1
  /\ {u[1] : u \in Uses} = {"username", "account", "update_router_info", "config"}

\* a text that is a decimal number: digits and nothing else
IsDecimal(t) == t # <<>> /\ \A k \in 1..Len(t) : IsDigit(t[k])

\* get_router_id_from_config_file has returned or thrown
Recovering == pc \in {"recover_done", "recover_failed"}

\* the file holds one metadata_cache section and it names the cluster
OneMatchingSection ==
  LET cfg == fs[ConfigFilePath].data
      s == SectionsOf(cfg, "[metadata_cache:")
  IN /\ Cardinality(s) = 1
     /\ SectionHas(cfg, MetadataCacheSection(cfg), "metadata_cluster=")
     /\ SectionGet(cfg, MetadataCacheSection(cfg), "metadata_cluster=") = metadata_cluster

\* the matching section has a router_id line
RecordsRouterId ==
  SectionHas(fs[ConfigFilePath].data, MetadataCacheSection(fs[ConfigFilePath].data),
             "router_id=")

\* the value of that line
RecordedRouterId ==
  SectionGet(fs[ConfigFilePath].data, MetadataCacheSection(fs[ConfigFilePath].data),
             "router_id=")

\* a matching section without router_id yields id 0 and no error; more than
\* one metadata_cache section is an error with and without force
C30_MissingAndMultiple ==
  Recovering =>
    /\ (OneMatchingSection /\ ~RecordsRouterId) =>
         pc = "recover_done" /\ router_id = 0
    /\ Cardinality(SectionsOf(fs[ConfigFilePath].data, "[metadata_cache:")) > 1 =>
         /\ pc = "recover_failed"
         /\ exc = <<"multiple metadata_cache sections not supported">>

\* C30: when the metadata_cache section of the cluster records a router_id
\* that is not a decimal number, digits followed by other characters
\* included, recovery fails with Invalid router_id and recovers no id; a
\* matching section without router_id yields 0; more than one metadata_cache
\* section is an error whatever the force option.
C30_InvalidRouterIdRejected ==
  /\ C30_MissingAndMultiple
  /\ (/\ Recovering
      /\ OneMatchingSection
      /\ RecordsRouterId
      /\ ~IsDecimal(RecordedRouterId)) =>
         /\ pc = "recover_failed"
         /\ exc = <<"Invalid router_id">>
         /\ router_id = 0

====
